---- MODULE Spec2Model ----
(***************************************************************************)
(* A model of the instrument communication layer of SCPI_Control:          *)
(* the USBTMC transport (instruments.py), the BK894 LCR meter driver, the  *)
(* TekMSO24 oscilloscope driver and the parts of the GUI (gui.py) that     *)
(* drive them.                                                             *)
(*                                                                         *)
(* Text is modelled as a sequence of one-character strings; a literal of   *)
(* the source that is never inspected character by character (a command    *)
(* header such as ":FREQ ") is a single atom of that sequence.             *)
(* Real numbers are modelled as scaled integers: frequencies in Hz,        *)
(* voltages in millivolts.                                                 *)
(***************************************************************************)
EXTENDS Integers, Sequences, FiniteSets, TLC

VARIABLES
    sent,       \* LCR: the byte strings handed to os.write, in order
    reads,      \* LCR: the number of os.read calls made
    lastOp,     \* LCR: the last driver operation, its argument and outcome
    opCount,    \* LCR: the number of driver operations completed
    timeout,    \* read: self.timeout, in ticks of the poll interval
    rdKind,     \* read: the method running, "read" or "read_raw"
    rdPc,       \* read: the position of the call in its loop
    now,        \* read: time.time(), in ticks
    startTime,  \* read: the time the call started
    end_time,   \* read: the deadline computed at the start of the call
    data,       \* read: the accumulated buffer of read()
    chanLast,   \* read: the outcome of the last os.read
    result,     \* read: how the call ended, and the value it returned
    chan,       \* ask: the chunks the device holds ready for os.read, in order
    lastAsk,    \* ask: the last query, its command and its outcome
    askCount,   \* ask: the number of queries and captures completed
    fdTable,    \* conn: for each descriptor number, the open channel it names (0: closed)
    inst,       \* conn: the driver objects constructed, each with the channel it opened
    guiLcr,     \* conn: InstrumentControlGUI.lcr (0: None)
    guiScope,   \* conn: InstrumentControlGUI.scope (0: None)
    autoDone,   \* conn: auto_connect has run
    recording,  \* gui: InstrumentControlGUI.recording
    startEnabled, \* gui: the Start Logging button is enabled (Stop Logging is not)
    lcrContinuous, \* gui: InstrumentControlGUI.lcr_continuous
    ui,         \* gui: the handler the UI thread is in and the channel calls it has left
    loggers,    \* gui: the logging threads started, each with its position
    wfDev,      \* waveform: the record the oscilloscope holds and how it reports it
    wfPc,       \* waveform: the position of get_waveform
    wfPre,      \* waveform: the preamble values parsed so far, in query order
    wfSent,     \* waveform: the byte strings get_waveform has written, in order
    wfRaw,      \* waveform: raw_data, the bytes read_raw returned
    wfResult,   \* waveform: how get_waveform ended, and the dict it returned
    wfLast,     \* waveform: how the last read of get_waveform ended
    lcrDev,     \* query: the configuration and the reading the LCR meter holds
    lcrHeard,   \* query: the responses the last measure or get_config received
    lcrResult,  \* query: how the last measure or get_config ended, and its value
    scopeSent,  \* scope: the byte strings the channel operations have written
    scopeOp,    \* scope: the last channel operation, its channel and outcome
    scopeCount, \* scope: the number of channel operations completed
    acqDev,     \* scope: the acquisition settings the oscilloscope holds
    msSent,     \* measure: the byte strings the current or last scope call wrote
    msHeard,    \* measure: what the oscilloscope answered to the last value query
    msResult,   \* measure: how the last TekMSO24.measure ended, and its value
    ga,         \* measure: the running or last get_all_measurements call
    scopeLabels, \* measure: for each channel, what its measurement labels show
    useLast     \* use: the last write made through a driver object of the GUI

lcrVars == <<sent, reads, lastOp, opCount>>

askVars == <<chan, lastAsk, askCount>>

connVars == <<fdTable, inst, guiLcr, guiScope, autoDone>>

guiVars == <<recording, startEnabled, lcrContinuous, ui, loggers>>

wfVars == <<wfDev, wfPc, wfPre, wfSent, wfRaw, wfResult, wfLast>>

queryVars == <<lcrDev, lcrHeard, lcrResult>>

scopeVars == <<scopeSent, scopeOp, scopeCount, acqDev>>

measVars == <<msSent, msHeard, msResult, ga, scopeLabels>>

readVars == <<timeout, rdKind, rdPc, now, startTime, end_time, data, chanLast,
              result>>

vars == <<sent, reads, lastOp, opCount,
          timeout, rdKind, rdPc, now, startTime, end_time, data, chanLast,
          result, chan, lastAsk, askCount,
          fdTable, inst, guiLcr, guiScope, autoDone,
          recording, startEnabled, lcrContinuous, ui, loggers,
          wfDev, wfPc, wfPre, wfSent, wfRaw, wfResult, wfLast,
          lcrDev, lcrHeard, lcrResult,
          scopeSent, scopeOp, scopeCount, acqDev,
          msSent, msHeard, msResult, ga, scopeLabels, useLast>>

\* what the actions of each part leave alone
frameLcr == <<readVars, askVars, connVars, guiVars, wfVars, queryVars, scopeVars,
              measVars, useLast>>

frameRead == <<lcrVars, askVars, connVars, guiVars, wfVars, queryVars, scopeVars,
               measVars, useLast>>

frameAsk == <<reads, lastOp, opCount, readVars, connVars, guiVars, wfVars, queryVars, scopeVars,
              measVars, useLast>>

frameConn == <<lcrVars, readVars, askVars, guiVars, wfVars, queryVars, scopeVars,
               measVars, useLast>>

frameGui == <<lcrVars, readVars, askVars, connVars, wfVars, queryVars, scopeVars,
              measVars, useLast>>

frameWfm == <<lcrVars, readVars, askVars, connVars, guiVars, queryVars, scopeVars,
              measVars, useLast>>

frameQuery == <<readVars, askVars, connVars, guiVars, wfVars, scopeVars,
                measVars, useLast>>

frameScope == <<lcrVars, readVars, askVars, connVars, guiVars, wfVars, queryVars,
                measVars, useLast>>

frameMeas == <<lcrVars, readVars, askVars, connVars, guiVars, wfVars, queryVars,
               scopeVars, useLast>>

frameUse == <<lcrVars, readVars, askVars, guiVars, wfVars, queryVars, scopeVars,
              measVars>>

(***************************************************************************)
(* Bounds of the model.                                                    *)
(***************************************************************************)
MaxOps == 2

\* the longest one os.read call may take, in ticks
MaxReadTicks == 2

\* the number of logging threads started
MaxLoggers == 2

\* the number of descriptor numbers the process may have open
MaxFd == 2

\* the number of driver objects constructed
MaxOpens == 4

\* the number of queries and captures made on one Connection
MaxAsks == 3

\* the number of chunks without a terminator the channel delivers to one call
MaxChunks == 2

\* a short self.timeout set by a caller, in ticks
ShortTimeout == 3

(***************************************************************************)
(* Text helpers.                                                           *)
(***************************************************************************)
NL == "\n"

Last(s) == s[Len(s)]

Digits == <<"0", "1", "2", "3", "4", "5", "6", "7", "8", "9">>

LowerCase == <<"a", "b", "c", "d", "e", "f", "g", "h", "i", "j", "k", "l", "m",
               "n", "o", "p", "q", "r", "s", "t", "u", "v", "w", "x", "y", "z">>

UpperCase == <<"A", "B", "C", "D", "E", "F", "G", "H", "I", "J", "K", "L", "M",
               "N", "O", "P", "Q", "R", "S", "T", "U", "V", "W", "X", "Y", "Z">>

\* str.upper() on one character
upperChar(c) ==
    IF \E i \in 1..Len(LowerCase) : LowerCase[i] = c
    THEN UpperCase[CHOOSE i \in 1..Len(LowerCase) : LowerCase[i] = c]
    ELSE c

\* str.upper()
upper(s) == [i \in 1..Len(s) |-> upperChar(s[i])]

\* str(n) of a Python int: the decimal digits, "-" first when negative
RECURSIVE formatNat(_)
formatNat(n) ==
    IF n < 10 THEN <<Digits[n + 1]>>
    ELSE Append(formatNat(n \div 10), Digits[(n % 10) + 1])

formatInt(n) == IF n < 0 THEN <<"-">> \o formatNat(0 - n) ELSE formatNat(n)

\* repr of a Python float given in thousandths: the integer part, a point and
\* the fraction without trailing zeros, at least one fraction digit
RECURSIVE stripZeros(_)
stripZeros(ds) ==
    IF Len(ds) > 1 /\ Last(ds) = "0" THEN stripZeros(SubSeq(ds, 1, Len(ds) - 1))
    ELSE ds

formatMilli(v) ==
    LET a    == IF v < 0 THEN 0 - v ELSE v
        frac == a % 1000
        pad  == <<Digits[(frac \div 100) + 1], Digits[((frac \div 10) % 10) + 1],
                  Digits[(frac % 10) + 1]>>
    IN  (IF v < 0 THEN <<"-">> ELSE <<>>)
            \o formatNat(a \div 1000) \o <<".">> \o stripZeros(pad)

(***************************************************************************)
(* USBTMC.write: the bytes one write call hands to os.write.               *)
(***************************************************************************)
endswithNL(command) == Len(command) > 0 /\ Last(command) = NL

write_always_appends(command) == Append(command, NL)

write(command) == IF ~endswithNL(command) THEN Append(command, NL) ELSE command

(***************************************************************************)
(* USBTMC.read and USBTMC.read_raw: the deadline-bounded polling loops.    *)
(* One tick of the clock is the poll interval, time.sleep(0.01).           *)
(***************************************************************************)
PollInterval == 1

DefaultTimeout == 200

ScopeTimeout == 500

TimeoutInputs == {ShortTimeout, DefaultTimeout, ScopeTimeout}

\* what one os.read call may do: deliver a chunk (possibly empty), fail with
\* errno EAGAIN, or fail with another errno
ChunkInputs == { <<>>, <<"1">>, <<" ", "2", NL>>, <<"3", NL, "4">> }

Whitespace == {" ", NL, "\t", "\r"}

\* str.strip()
RECURSIVE lstrip(_)
lstrip(s) ==
    IF Len(s) > 0 /\ s[1] \in Whitespace THEN lstrip(SubSeq(s, 2, Len(s))) ELSE s

RECURSIVE rstrip(_)
rstrip(s) ==
    IF Len(s) > 0 /\ Last(s) \in Whitespace THEN rstrip(SubSeq(s, 1, Len(s) - 1)) ELSE s

strip(s) == lstrip(rstrip(s))

contains(s, c) == \E i \in 1..Len(s) : s[i] = c

TimeoutError == "TimeoutError"

OSError == "OSError"

lcrIdle ==
    /\ sent = <<>>
    /\ reads = 0
    /\ lastOp = [op |-> "none", arg |-> <<>>, result |-> "none"]
    /\ opCount = 0

noResult == [kind |-> "none", value |-> <<>>]

readIdle ==
    /\ rdKind = "none"
    /\ rdPc = "idle"
    /\ now = 0
    /\ startTime = 0
    /\ end_time = 0
    /\ data = <<>>
    /\ chanLast = "none"
    /\ result = noResult

askIdle ==
    /\ chan = <<>>
    /\ lastAsk = [op |-> "none", bytes |-> <<>>, result |-> noResult]
    /\ askCount = 0

connIdle ==
    /\ fdTable = [fd \in 1..MaxFd |-> 0]
    /\ inst = <<>>
    /\ guiLcr = 0
    /\ guiScope = 0
    /\ autoDone = FALSE

guiIdle ==
    /\ recording = FALSE
    /\ startEnabled = TRUE
    /\ lcrContinuous = FALSE
    /\ ui = [handler |-> "idle", todo |-> <<>>]
    /\ loggers = <<>>

\* no capture has been made; the oscilloscope holds no record
wfIdle ==
    /\ wfDev = [block |-> <<>>, pre |-> <<>>]
    /\ wfPc = "idle"
    /\ wfPre = <<>>
    /\ wfSent = <<>>
    /\ wfRaw = <<>>
    /\ wfResult = noResult
    /\ wfLast = "none"

\* no measure or get_config has been made; the LCR meter is not yet seen
queryIdle ==
    /\ lcrDev = [mode |-> <<>>, freq |-> 0, reading |-> <<>>]
    /\ lcrHeard = <<>>
    /\ lcrResult = noResult

\* no channel operation of the oscilloscope driver has been made
scopeIdle ==
    /\ scopeSent = <<>>
    /\ scopeOp = [op |-> "none", channel |-> 0, result |-> "none"]
    /\ scopeCount = 0
    /\ acqDev = [stopafter |-> "RUNSTOP", state |-> "RUN"]

\* a measurement value: None, or the number m * 10^e with m not a multiple
\* of ten (0 is m = 0, e = 0)
None == [none |-> TRUE, m |-> 0, e |-> 0]

gaIdle == [pc |-> "idle", channel |-> 0, k |-> 0, map |-> <<>>, result |-> "none"]

\* no measurement has been made on the oscilloscope
\* for meas in ['Frequency', 'Period', 'Mean', 'Pk-Pk', 'RMS', 'Amplitude']
LabelNames ==
    << <<"F","r","e","q","u","e","n","c","y">>, <<"P","e","r","i","o","d">>,
       <<"M","e","a","n">>, <<"P","k","-","P","k">>, <<"R","M","S">>,
       <<"A","m","p","l","i","t","u","d","e">> >>

\* the labels of one channel as create_scope_tab makes them: "<name>: --"
newLabels == [i \in 1..Len(LabelNames) |-> [name |-> LabelNames[i], shown |-> "--", value |-> None]]

\* for ch in range(1, 5): self.scope_meas_labels[ch] = ch_labels
labelsCreated == [ch \in 1..4 |-> newLabels]

measIdle ==
    /\ msSent = <<>>
    /\ msHeard = [kind |-> "none", text |-> <<>>, m |-> 0, e |-> 0]
    /\ msResult = [kind |-> "none", value |-> None]
    /\ ga = gaIdle
    /\ scopeLabels = labelsCreated

\* no write has been made through a driver object
useIdle == useLast = [obj |-> 0, result |-> "none", dev |-> "none"]

InitRead ==
    /\ lcrIdle
    /\ readIdle
    /\ askIdle
    /\ connIdle
    /\ guiIdle
    /\ wfIdle
    /\ queryIdle
    /\ scopeIdle
    /\ measIdle
    /\ useIdle
    /\ timeout \in TimeoutInputs

\* end_time = time.time() + self.timeout; data = b''
read_begin(kind) ==
    /\ rdPc = "idle"
    /\ rdKind' = kind
    /\ startTime' = now
    /\ end_time' = now + timeout
    /\ data' = <<>>
    /\ rdPc' = "while"
    /\ UNCHANGED <<timeout, now, chanLast, result>>
    /\ UNCHANGED frameRead

after_loop_empty ==
    IF rdKind = "read" /\ data # <<>>
    THEN [kind |-> "return", value |-> strip(data)]
    ELSE IF rdKind = "read_raw"
    THEN [kind |-> "return", value |-> <<>>]
    ELSE [kind |-> TimeoutError, value |-> <<>>]

\* the statements after the loop
after_loop ==
    IF rdKind = "read" /\ data # <<>>
    THEN [kind |-> "return", value |-> strip(data)]
    ELSE [kind |-> TimeoutError, value |-> <<>>]

while_cond == now < end_time

\* while time.time() < end_time: enter the body and call os.read, or leave
\* the loop
read_while ==
    /\ rdPc = "while"
    /\ IF while_cond
       THEN /\ rdPc' = "os_read"
            /\ UNCHANGED result
       ELSE /\ rdPc' = "done"
            /\ result' = after_loop
    /\ UNCHANGED <<timeout, rdKind, now, startTime, end_time, data, chanLast>>
    /\ UNCHANGED frameRead

\* os.read returns a chunk after d ticks
read_chunk(chunk, d) ==
    /\ rdPc = "os_read"
    /\ now' = now + d
    /\ chanLast' = IF chunk = <<>> THEN "empty" ELSE "chunk"
    /\ IF chunk = <<>>
       THEN /\ rdPc' = "sleep"
            /\ UNCHANGED <<data, result>>
       ELSE IF rdKind = "read_raw"
       THEN /\ rdPc' = "done"
            /\ result' = [kind |-> "return", value |-> chunk]
            /\ UNCHANGED data
       ELSE /\ data' = data \o chunk
            /\ IF contains(chunk, NL)
               THEN /\ rdPc' = "done"
                    /\ result' = [kind |-> "return", value |-> strip(data \o chunk)]
               ELSE /\ Len(data) < MaxChunks
                    /\ rdPc' = "sleep"
                    /\ UNCHANGED result
    /\ UNCHANGED <<timeout, rdKind, startTime, end_time>>
    /\ UNCHANGED frameRead

on_oserror_raise(errno) == [pc |-> "done", result |-> [kind |-> OSError, value |-> <<>>]]

\* except OSError: errno.EAGAIN sleeps and continues, any other errno is
\* raised again
on_oserror(errno) ==
    IF errno = "EAGAIN" THEN [pc |-> "sleep", result |-> noResult]
    ELSE [pc |-> "done", result |-> [kind |-> OSError, value |-> <<>>]]

\* os.read raises OSError after d ticks
read_oserror(errno, d) ==
    /\ rdPc = "os_read"
    /\ now' = now + d
    /\ chanLast' = errno
    /\ rdPc' = on_oserror(errno).pc
    /\ result' = on_oserror(errno).result
    /\ UNCHANGED <<timeout, rdKind, startTime, end_time, data>>
    /\ UNCHANGED frameRead

\* time.sleep(0.01), then back to the loop condition
read_sleep ==
    /\ rdPc = "sleep"
    /\ now' = now + PollInterval
    /\ rdPc' = "while"
    /\ UNCHANGED <<timeout, rdKind, startTime, end_time, data, chanLast, result>>
    /\ UNCHANGED frameRead

ReadBegin == \E kind \in {"read", "read_raw"} : read_begin(kind)

ReadChunk == \E chunk \in ChunkInputs, d \in 0..MaxReadTicks : read_chunk(chunk, d)

ReadOSError == \E errno \in {"EAGAIN", "EIO"}, d \in 0..MaxReadTicks : read_oserror(errno, d)

NextRead == ReadBegin \/ read_while \/ ReadChunk \/ ReadOSError \/ read_sleep

SpecRead == InitRead /\ [][NextRead]_vars

(***************************************************************************)
(* BK894: the LCR meter driver.                                            *)
(***************************************************************************)
MODES == { <<"C","P","D">>, <<"C","P","Q">>, <<"C","P","G">>, <<"C","P","R","P">>,
           <<"L","S","R","S">>, <<"L","S","R","D">>, <<"L","P","R","S">>,
           <<"L","P","R","P">>, <<"R","X">>, <<"Z","T","D">>, <<"Z","T","R">> }

\* the inputs the operations are tried on
ModeInputs == { <<"C","P","D">>, <<"c","p","d">>, <<"L","s","R","S">>, <<"R","X">>,
                <<"X","Y","Z">>, <<"C","P">>, <<>> }

FreqInputs == {99, 100, 1000, 200000, 200001}

VoltInputs == {9, 10, 1000, 2000, 2001}

ValueError == "ValueError"

modeOk(mode) == upper(mode) \in MODES

freqOk_open(freq_hz) == 100 <= freq_hz /\ freq_hz < 200000

freqOk(freq_hz) == 100 <= freq_hz /\ freq_hz <= 200000

voltageOk_wide(voltage) == 0 <= voltage /\ voltage <= 2000

voltageOk(voltage) == 10 <= voltage /\ voltage <= 2000

modeCommand_raw(mode) == <<":FUNC:IMP ">> \o mode

modeCommand(mode) == <<":FUNC:IMP ">> \o upper(mode)

freqCommand(freq_hz) == <<":FREQ ">> \o formatInt(freq_hz)

voltCommand(voltage) == <<":LEV:VOLT ">> \o formatMilli(voltage)

InitLcr ==
    /\ lcrIdle
    /\ readIdle
    /\ askIdle
    /\ connIdle
    /\ guiIdle
    /\ wfIdle
    /\ queryIdle
    /\ scopeIdle
    /\ measIdle
    /\ useIdle
    /\ timeout = DefaultTimeout

set_mode(mode) ==
    /\ opCount < MaxOps
    /\ UNCHANGED frameLcr
    /\ opCount' = opCount + 1
    /\ IF ~modeOk(mode)
       THEN /\ lastOp' = [op |-> "set_mode", arg |-> mode, result |-> ValueError]
            /\ UNCHANGED <<sent, reads>>
       ELSE /\ sent' = Append(sent, write(modeCommand(mode)))
            /\ lastOp' = [op |-> "set_mode", arg |-> mode, result |-> "ok"]
            /\ UNCHANGED reads

set_frequency(freq_hz) ==
    /\ opCount < MaxOps
    /\ UNCHANGED frameLcr
    /\ opCount' = opCount + 1
    /\ IF ~freqOk(freq_hz)
       THEN /\ lastOp' = [op |-> "set_frequency", arg |-> freq_hz, result |-> ValueError]
            /\ UNCHANGED <<sent, reads>>
       ELSE /\ sent' = Append(sent, write(freqCommand(freq_hz)))
            /\ lastOp' = [op |-> "set_frequency", arg |-> freq_hz, result |-> "ok"]
            /\ UNCHANGED reads

set_voltage(voltage) ==
    /\ opCount < MaxOps
    /\ UNCHANGED frameLcr
    /\ opCount' = opCount + 1
    /\ IF ~voltageOk(voltage)
       THEN /\ lastOp' = [op |-> "set_voltage", arg |-> voltage, result |-> ValueError]
            /\ UNCHANGED <<sent, reads>>
       ELSE /\ sent' = Append(sent, write(voltCommand(voltage)))
            /\ lastOp' = [op |-> "set_voltage", arg |-> voltage, result |-> "ok"]
            /\ UNCHANGED reads

SetMode == \E mode \in ModeInputs : set_mode(mode)

SetFrequency == \E freq_hz \in FreqInputs : set_frequency(freq_hz)

SetVoltage == \E voltage \in VoltInputs : set_voltage(voltage)

NextLcr == SetMode \/ SetFrequency \/ SetVoltage

Spec == InitLcr /\ [][NextLcr]_vars

(***************************************************************************)
(* What the instrument reads from one byte string it was sent: the header  *)
(* atom, and the argument text between the header and the terminator.      *)
(***************************************************************************)
headerOf(bytes) == bytes[1]

argumentOf(bytes) ==
    SubSeq(bytes, 2, IF Last(bytes) = NL THEN Len(bytes) - 1 ELSE Len(bytes))

digitValue(c) == (CHOOSE i \in 1..10 : Digits[i] = c) - 1

isDigit(c) == \E i \in 1..10 : Digits[i] = c

RECURSIVE parseNat(_)
parseNat(ds) ==
    IF Len(ds) = 0 THEN 0
    ELSE 10 * parseNat(SubSeq(ds, 1, Len(ds) - 1)) + digitValue(Last(ds))

\* a decimal text "ddd.fff" read in thousandths
parseMilli(ds) ==
    LET dot  == CHOOSE i \in 1..Len(ds) : ds[i] = "."
        frac == SubSeq(ds, dot + 1, Len(ds)) \o <<"0", "0", "0">>
    IN  1000 * parseNat(SubSeq(ds, 1, dot - 1)) + parseNat(SubSeq(frac, 1, 3))

isNatText(ds) == Len(ds) > 0 /\ \A i \in 1..Len(ds) : isDigit(ds[i])

isMilliText(ds) ==
    /\ Cardinality({i \in 1..Len(ds) : ds[i] = "."}) = 1
    /\ \A i \in 1..Len(ds) : isDigit(ds[i]) \/ ds[i] = "."
    /\ ds[1] # "."

\* the instrument is sent a legal configuration value
legalForDevice(bytes) ==
    LET arg == argumentOf(bytes)
    IN  CASE headerOf(bytes) = ":FUNC:IMP " -> arg \in MODES
          [] headerOf(bytes) = ":FREQ " ->
                isNatText(arg) /\ 100 <= parseNat(arg) /\ parseNat(arg) <= 200000
          [] headerOf(bytes) = ":LEV:VOLT " ->
                isMilliText(arg) /\ 10 <= parseMilli(arg) /\ parseMilli(arg) <= 2000
          [] OTHER -> FALSE

(***************************************************************************)
(* USBTMC.ask on one Connection, against an instrument that answers each   *)
(* query it is sent with one terminated response, in time or late.         *)
(***************************************************************************)
QueryInputs == { <<"*IDN?">>, <<":FETC?">>, <<":FREQ?">> }

\* the instrument's response to the query it read from `bytes`
answerTo(bytes) == <<headerOf(bytes), "=", "1", NL>>

\* the curve block the instrument sends, in one chunk or in two
curveChunks(split) ==
    IF split THEN << <<"#", "1", "4", "b1", "b2">>, <<"b3", "b4", NL>> >>
    ELSE << <<"#", "1", "4", "b1", "b2", "b3", "b4", NL>> >>

\* USBTMC.read run to its end on a channel that delivers `chunks` and then
\* would-block until the deadline: the outcome and the chunks left unread
RECURSIVE read_loop(_, _)
read_loop(acc, chunks) ==
    IF chunks = <<>>
    THEN [result |-> IF acc # <<>> THEN [kind |-> "return", value |-> strip(acc)]
                     ELSE [kind |-> TimeoutError, value |-> <<>>],
          rest |-> <<>>]
    ELSE IF Head(chunks) = <<>> THEN read_loop(acc, Tail(chunks))
    ELSE IF contains(Head(chunks), NL)
    THEN [result |-> [kind |-> "return", value |-> strip(acc \o Head(chunks))],
          rest |-> Tail(chunks)]
    ELSE read_loop(acc \o Head(chunks), Tail(chunks))

\* USBTMC.read_raw run to its end on such a channel
RECURSIVE read_raw_loop(_)
read_raw_loop(chunks) ==
    IF chunks = <<>> THEN [result |-> [kind |-> TimeoutError, value |-> <<>>], rest |-> <<>>]
    ELSE IF Head(chunks) = <<>> THEN read_raw_loop(Tail(chunks))
    ELSE [result |-> [kind |-> "return", value |-> Head(chunks)], rest |-> Tail(chunks)]

InitAsk ==
    /\ lcrIdle
    /\ readIdle
    /\ askIdle
    /\ connIdle
    /\ guiIdle
    /\ wfIdle
    /\ queryIdle
    /\ scopeIdle
    /\ measIdle
    /\ useIdle
    /\ timeout = DefaultTimeout

ask_writes_resend(command) == <<write(command), write(command)>>

\* self.write(command): the byte strings one ask hands to os.write
ask_writes(command) == <<write(command)>>

\* ask(command): write, settle, read. The instrument's response reaches the
\* channel before the read's deadline, or (late) only after it.
ask(command, late) ==
    /\ askCount < MaxAsks
    /\ askCount' = askCount + 1
    /\ sent' = sent \o ask_writes(command)
    /\ LET response == answerTo(write(command))
           ready    == IF late THEN chan ELSE Append(chan, response)
           r        == read_loop(<<>>, ready)
       IN  /\ lastAsk' = [op |-> "ask", bytes |-> write(command), result |-> r.result]
           /\ chan' = IF late THEN Append(r.rest, response) ELSE r.rest
    /\ UNCHANGED frameAsk

\* get_waveform from its curve request on: write('CURVE?'), then one read_raw
curve_read(split) ==
    /\ askCount < MaxAsks
    /\ askCount' = askCount + 1
    /\ sent' = Append(sent, write(<<"CURVE?">>))
    /\ LET r == read_raw_loop(chan \o curveChunks(split))
       IN  /\ lastAsk' = [op |-> "curve", bytes |-> write(<<"CURVE?">>), result |-> r.result]
           /\ chan' = r.rest
    /\ UNCHANGED frameAsk

Ask == \E command \in QueryInputs, late \in BOOLEAN : ask(command, late)

CurveRead == \E split \in BOOLEAN : curve_read(split)

NextAsk == Ask \/ CurveRead

SpecAsk == InitAsk /\ [][NextAsk]_vars

(***************************************************************************)
(* One USBTMC.ask followed statement by statement: the write, the settle   *)
(* delay, and the read with its loop (the steps of read above).            *)
(***************************************************************************)
\* time.sleep(0.1), in ticks of the poll interval
SettleDelay == 10

\* self.write(command)
ask_write(command) ==
    /\ rdPc = "idle"
    /\ sent' = sent \o ask_writes(command)
    /\ lastAsk' = [op |-> "ask", bytes |-> write(command), result |-> noResult]
    /\ askCount' = askCount + 1
    /\ rdPc' = "settle"
    /\ UNCHANGED <<timeout, rdKind, now, startTime, end_time, data, chanLast, result>>
    /\ UNCHANGED <<reads, lastOp, opCount, chan, connVars, guiVars, wfVars, queryVars,
                   scopeVars, measVars, useLast>>

\* time.sleep(0.1); return self.read(): the delay, then the first statements
\* of read
ask_settle ==
    /\ rdPc = "settle"
    /\ now' = now + SettleDelay
    /\ rdKind' = "read"
    /\ startTime' = now'
    /\ end_time' = now' + timeout
    /\ data' = <<>>
    /\ rdPc' = "while"
    /\ UNCHANGED <<timeout, chanLast, result>>
    /\ UNCHANGED frameRead

AskWrite == \E command \in QueryInputs : ask_write(command)

NextAskRun == AskWrite \/ ask_settle \/ read_while \/ ReadChunk \/ ReadOSError \/ read_sleep

SpecAskRun == InitRead /\ [][NextAskRun]_vars

(***************************************************************************)
(* USBTMC.write called with arbitrary command texts.                       *)
(***************************************************************************)
MaxWrites == 3

\* command texts without a terminator, with one, with two, and the empty text
CommandInputs ==
    { <<"*IDN?">>, <<"*IDN?", NL>>, <<"CURVE?", NL, NL>>, <<>>, <<NL>>, <<"X", NL, "Y">> }

InitWrite ==
    /\ lcrIdle
    /\ readIdle
    /\ askIdle
    /\ connIdle
    /\ guiIdle
    /\ wfIdle
    /\ queryIdle
    /\ scopeIdle
    /\ measIdle
    /\ useIdle
    /\ timeout = DefaultTimeout

\* write(command): the terminator is added if absent, then one os.write
USBTMC_write(command) ==
    /\ opCount < MaxWrites
    /\ opCount' = opCount + 1
    /\ sent' = Append(sent, write(command))
    /\ lastOp' = [op |-> "write", arg |-> command, result |-> "return"]
    /\ UNCHANGED reads
    /\ UNCHANGED frameLcr

Write == \E command \in CommandInputs : USBTMC_write(command)

NextWrite == Write

SpecWrite == InitWrite /\ [][NextWrite]_vars

(***************************************************************************)
(* Connections: os.open / os.close of the device nodes, the constructors   *)
(* of the two drivers, and the GUI's auto_connect and reconnect handlers.  *)
(* A driver object is the index in `inst` of the record made when it was   *)
(* constructed; its field fd is self.file, which is never reassigned, and   *)
(* conn tells whether the constructor returned it (a Connection) or raised *)
(* after opening the channel. releases and releasedBy record the os.close  *)
(* calls that released the channel.                                        *)
(* os.open returns the lowest descriptor number that is not open.          *)
(***************************************************************************)
hasFree(tbl) == \E fd \in DOMAIN tbl : tbl[fd] = 0

lowestFree(tbl) ==
    CHOOSE fd \in DOMAIN tbl : tbl[fd] = 0 /\ \A g \in DOMAIN tbl : g < fd => tbl[g] # 0

\* USBTMC.__init__ followed by the identification query of BK894.__init__ /
\* TekMSO24.__init__: os.open fails (no object), or the channel is opened and
\* the query then succeeds (the object is returned) or raises (it is not)
construct(tbl, ins, dev, openOk, idnOk) ==
    IF ~openOk \/ ~hasFree(tbl)
    THEN [ok |-> FALSE, tbl |-> tbl, ins |-> ins, obj |-> 0]
    ELSE LET fd  == lowestFree(tbl)
             obj == Len(ins) + 1
         IN  [ok  |-> idnOk,
              tbl |-> [tbl EXCEPT ![fd] = obj],
              ins |-> Append(ins, [fd |-> fd, dev |-> dev, conn |-> idnOk,
                                   releasedBy |-> 0, releases |-> 0]),
              obj |-> obj]

\* USBTMC.close of object obj: os.close(self.file) raises on a descriptor
\* that is not open, and otherwise releases the channel that descriptor names
close(tbl, ins, obj) ==
    LET fd == ins[obj].fd
        ch == tbl[fd]
    IN  IF ch = 0
        THEN [raised |-> TRUE, tbl |-> tbl, ins |-> ins]
        ELSE [raised |-> FALSE,
              tbl |-> [tbl EXCEPT ![fd] = 0],
              ins |-> [ins EXCEPT ![ch].releasedBy = obj,
                                  ![ch].releases = ins[ch].releases + 1]]

InitConn ==
    /\ lcrIdle
    /\ readIdle
    /\ askIdle
    /\ connIdle
    /\ guiIdle
    /\ wfIdle
    /\ queryIdle
    /\ scopeIdle
    /\ measIdle
    /\ useIdle
    /\ timeout = DefaultTimeout

auto_connect(lcrOpen, lcrIdn, scopeOpen, scopeIdn) ==
    /\ ~autoDone
    /\ autoDone' = TRUE
    /\ LET a == construct(fdTable, inst, "/dev/usbtmc1", lcrOpen, lcrIdn)
           b == construct(a.tbl, a.ins, "/dev/usbtmc2", scopeOpen, scopeIdn)
       IN  /\ fdTable' = b.tbl
           /\ inst' = b.ins
           /\ guiLcr' = IF a.ok THEN a.obj ELSE guiLcr
           /\ guiScope' = IF b.ok THEN b.obj ELSE guiScope
    /\ UNCHANGED frameConn

\* the body shared by reconnect_lcr and reconnect_scope: close the current
\* object if there is one, then construct a new one; any exception ends the
\* handler with the attribute left as it was
reconnect(current, dev, openOk, idnOk) ==
    LET c == IF current # 0 THEN close(fdTable, inst, current)
             ELSE [raised |-> FALSE, tbl |-> fdTable, ins |-> inst]
        k == construct(c.tbl, c.ins, dev, openOk, idnOk)
    IN  IF c.raised THEN [tbl |-> fdTable, ins |-> inst, obj |-> current]
        ELSE [tbl |-> k.tbl, ins |-> k.ins, obj |-> IF k.ok THEN k.obj ELSE current]

reconnect_lcr(openOk, idnOk) ==
    /\ autoDone
    /\ Len(inst) < MaxOpens
    /\ LET r == reconnect(guiLcr, "/dev/usbtmc1", openOk, idnOk)
       IN  /\ fdTable' = r.tbl
           /\ inst' = r.ins
           /\ guiLcr' = r.obj
    /\ UNCHANGED <<guiScope, autoDone>>
    /\ UNCHANGED frameConn

reconnect_scope(openOk, idnOk) ==
    /\ autoDone
    /\ Len(inst) < MaxOpens
    /\ LET r == reconnect(guiScope, "/dev/usbtmc2", openOk, idnOk)
       IN  /\ fdTable' = r.tbl
           /\ inst' = r.ins
           /\ guiScope' = r.obj
    /\ UNCHANGED <<guiLcr, autoDone>>
    /\ UNCHANGED frameConn

AutoConnect == \E a, b, c, d \in BOOLEAN : auto_connect(a, b, c, d)

ReconnectLcr == \E openOk, idnOk \in BOOLEAN : reconnect_lcr(openOk, idnOk)

ReconnectScope == \E openOk, idnOk \in BOOLEAN : reconnect_scope(openOk, idnOk)

NextConn == AutoConnect \/ ReconnectLcr \/ ReconnectScope

SpecConn == InitConn /\ [][NextConn]_vars

(***************************************************************************)
(* Operations on the driver objects the GUI holds, between the connection  *)
(* handlers: each operation starts with os.write(self.file, ...).          *)
(***************************************************************************)
\* os.write / os.read on descriptor self.file of object obj: OSError when the
\* number names no open channel, and otherwise the device of the channel the
\* number names now
os_write(tbl, ins, obj) ==
    LET ch == tbl[ins[obj].fd]
    IN  IF ch = 0 THEN [result |-> OSError, dev |-> "none"]
        ELSE [result |-> "return", dev |-> ins[ch].dev]

\* an operation (write, ask, read, read_raw) on the USBTMC of object obj
usbtmc_use(obj) ==
    /\ obj # 0
    /\ useLast' = [obj |-> obj, result |-> os_write(fdTable, inst, obj).result,
                   dev |-> os_write(fdTable, inst, obj).dev]
    /\ UNCHANGED connVars
    /\ UNCHANGED frameUse

\* a handler of the GUI operating self.lcr
LcrUse == usbtmc_use(guiLcr)

\* a handler of the GUI operating self.scope
ScopeUse == usbtmc_use(guiScope)

NextUse == AutoConnect \/ ReconnectLcr \/ ReconnectScope \/ LcrUse \/ ScopeUse

SpecUse == InitConn /\ [][NextUse]_vars

(***************************************************************************)
(* The GUI's two callers of the drivers: the UI thread, which runs one     *)
(* handler at a time, and the logging threads started by start_logging.    *)
(* A driver call is the sequence of channel calls (os.write, and the       *)
(* os.read loop of USBTMC.read) it makes on its Connection; a thread takes *)
(* them one at a time, so the calls of different threads interleave.       *)
(***************************************************************************)
wr(conn, part, cmd) == [conn |-> conn, kind |-> "write", part |-> part, cmd |-> cmd]

rd(conn, part, cmd) == [conn |-> conn, kind |-> "read", part |-> part, cmd |-> cmd]

\* USBTMC.ask
askCalls(conn, part, cmd) == <<wr(conn, part, cmd), rd(conn, part, cmd)>>

\* BK894.get_config
get_config(part) ==
    askCalls("lcr", part, ":FUNC:IMP?") \o askCalls("lcr", part, ":FREQ?")

\* BK894.measure
lcr_measure(part) == askCalls("lcr", part, ":FETC?")

\* the six types with mean and period taken in the other order
MeasTypes_reordered ==
    << <<"F","R","E","Q">>, <<"M","E","A","N">>, <<"P","E","R","I","O","D">>,
       <<"P","K","2","P","K">>, <<"R","M","S">>,
       <<"A","M","P","L","I","T","U","D","E">> >>

\* ['FREQ', 'PERIOD', 'MEAN', 'PK2PK', 'RMS', 'AMPLITUDE']
MeasTypes ==
    << <<"F","R","E","Q">>, <<"P","E","R","I","O","D">>, <<"M","E","A","N">>,
       <<"P","K","2","P","K">>, <<"R","M","S">>,
       <<"A","M","P","L","I","T","U","D","E">> >>

\* TekMSO24.measure
scope_measure(part, meas_type) ==
    <<wr("scope", part, "MEASUREMENT:IMMED:TYPE"),
      wr("scope", part, "MEASUREMENT:IMMED:SOURCE")>>
        \o askCalls("scope", part, "MEASUREMENT:IMMED:VALUE?")

\* TekMSO24.get_all_measurements
RECURSIVE get_all_from(_, _)
get_all_from(part, k) ==
    IF k > Len(MeasTypes) THEN <<>>
    ELSE scope_measure(part, MeasTypes[k]) \o get_all_from(part, k + 1)

get_all_measurements(part) == get_all_from(part, 1)

\* an exception raised by a channel call of `part` leaves the try block that
\* encloses that part: its remaining calls are skipped
RECURSIVE skipPart(_, _)
skipPart(todo, part) ==
    IF todo # <<>> /\ Head(todo).part = part THEN skipPart(Tail(todo), part) ELSE todo

\* one channel call is made: it returns, or (a read only) raises
afterCall(todo, ok) ==
    IF ok \/ Head(todo).kind = "write" THEN Tail(todo)
    ELSE skipPart(todo, Head(todo).part)

InitGui ==
    /\ lcrIdle
    /\ readIdle
    /\ askIdle
    /\ connIdle
    /\ guiIdle
    /\ wfIdle
    /\ queryIdle
    /\ scopeIdle
    /\ measIdle
    /\ useIdle
    /\ timeout = DefaultTimeout

uiIdle == ui.handler = "idle"

uiReturn(handler, todo) ==
    IF todo = <<>> THEN [handler |-> "idle", todo |-> <<>>]
    ELSE [handler |-> handler, todo |-> todo]

gui_auto_connect ==
    /\ uiIdle
    /\ \E a, b, c, d \in BOOLEAN : auto_connect(a, b, c, d)

start_logging ==
    /\ uiIdle /\ autoDone
    /\ startEnabled
    /\ Len(loggers) < MaxLoggers
    /\ recording' = TRUE
    /\ startEnabled' = FALSE
    /\ loggers' = Append(loggers, [pc |-> "setup", todo |-> <<>>, lcr_file |-> FALSE,
                                   scope_file |-> FALSE])
    /\ UNCHANGED <<lcrContinuous, ui>>
    /\ UNCHANGED frameGui

stop_logging ==
    /\ uiIdle
    /\ ~startEnabled
    /\ recording' = FALSE
    /\ startEnabled' = TRUE
    /\ UNCHANGED <<lcrContinuous, ui, loggers>>
    /\ UNCHANGED frameGui

\* lcr_single_measurement, pressed or called by lcr_continuous_measurement
lcr_single_measurement ==
    /\ uiIdle /\ autoDone
    /\ ui' = IF guiLcr = 0 THEN ui
             ELSE [handler |-> "lcr_single_measurement", todo |-> lcr_measure("ui")]
    /\ UNCHANGED <<recording, startEnabled, lcrContinuous, loggers>>
    /\ UNCHANGED frameGui

lcr_start_continuous ==
    /\ uiIdle /\ autoDone
    /\ ~lcrContinuous
    /\ lcrContinuous' = TRUE
    /\ ui' = IF guiLcr = 0 THEN ui
             ELSE [handler |-> "lcr_single_measurement", todo |-> lcr_measure("ui")]
    /\ UNCHANGED <<recording, startEnabled, loggers>>
    /\ UNCHANGED frameGui

lcr_stop_continuous ==
    /\ uiIdle
    /\ lcrContinuous
    /\ lcrContinuous' = FALSE
    /\ UNCHANGED <<recording, startEnabled, ui, loggers>>
    /\ UNCHANGED frameGui

\* the timer callback scheduled by root.after(200, ...)
lcr_continuous_measurement ==
    /\ lcrContinuous /\ guiLcr # 0
    /\ lcr_single_measurement

apply_lcr_config ==
    /\ uiIdle /\ autoDone
    /\ guiLcr # 0
    /\ ui' = [handler |-> "apply_lcr_config",
              todo |-> <<wr("lcr", "ui", ":FUNC:IMP"), wr("lcr", "ui", ":FREQ"),
                         wr("lcr", "ui", ":LEV:VOLT")>>]
    /\ UNCHANGED <<recording, startEnabled, lcrContinuous, loggers>>
    /\ UNCHANGED frameGui

\* the UI thread makes the next channel call of its handler
ui_call(ok) ==
    /\ ~uiIdle
    /\ ui' = uiReturn(ui.handler, afterCall(ui.todo, ok))
    /\ UNCHANGED <<recording, startEnabled, lcrContinuous, loggers>>
    /\ UNCHANGED frameGui

\* logging_loop up to its while loop: the log files are created for the
\* instruments that are ticked (log_lcr, log_ch1) and connected
logger_setup(i, log_lcr, log_ch1) ==
    /\ loggers[i].pc = "setup"
    /\ loggers' = [loggers EXCEPT ![i].pc = "while",
                                  ![i].lcr_file = log_lcr /\ guiLcr # 0,
                                  ![i].scope_file = log_ch1 /\ guiScope # 0]
    /\ UNCHANGED <<recording, startEnabled, lcrContinuous, ui>>
    /\ UNCHANGED frameGui

\* while self.recording: the calls of one sample, or the end of the loop
logger_while(i) ==
    /\ loggers[i].pc = "while"
    /\ loggers' = IF recording
                  THEN [loggers EXCEPT
                          ![i].pc = "sample",
                          ![i].todo =
                              (IF loggers[i].lcr_file /\ guiLcr # 0
                               THEN get_config("lcr") \o lcr_measure("lcr") ELSE <<>>)
                              \o (IF loggers[i].scope_file /\ guiScope # 0
                                  THEN get_all_measurements("ch1") ELSE <<>>)]
                  ELSE [loggers EXCEPT ![i].pc = "close"]
    /\ UNCHANGED <<recording, startEnabled, lcrContinuous, ui>>
    /\ UNCHANGED frameGui

\* a logging thread makes the next channel call of its sample
logger_call(i, ok) ==
    /\ loggers[i].pc = "sample"
    /\ loggers[i].todo # <<>>
    /\ loggers' = [loggers EXCEPT ![i].todo = afterCall(loggers[i].todo, ok)]
    /\ UNCHANGED <<recording, startEnabled, lcrContinuous, ui>>
    /\ UNCHANGED frameGui

\* time.sleep(interval) at the end of a sample
logger_sleep(i) ==
    /\ loggers[i].pc = "sample"
    /\ loggers[i].todo = <<>>
    /\ loggers' = [loggers EXCEPT ![i].pc = "while"]
    /\ UNCHANGED <<recording, startEnabled, lcrContinuous, ui>>
    /\ UNCHANGED frameGui

\* the log files are closed and the thread ends
logger_close(i) ==
    /\ loggers[i].pc = "close"
    /\ loggers' = [loggers EXCEPT ![i].pc = "ended", ![i].lcr_file = FALSE,
                                  ![i].scope_file = FALSE]
    /\ UNCHANGED <<recording, startEnabled, lcrContinuous, ui>>
    /\ UNCHANGED frameGui

UiCall == \E ok \in BOOLEAN : ui_call(ok)

LoggerSetup == \E i \in 1..Len(loggers), a, b \in BOOLEAN : logger_setup(i, a, b)

LoggerWhile == \E i \in 1..Len(loggers) : logger_while(i)

LoggerCall == \E i \in 1..Len(loggers), ok \in BOOLEAN : logger_call(i, ok)

LoggerSleep == \E i \in 1..Len(loggers) : logger_sleep(i)

LoggerClose == \E i \in 1..Len(loggers) : logger_close(i)

NextGui ==
    \/ gui_auto_connect
    \/ start_logging
    \/ stop_logging
    \/ lcr_single_measurement
    \/ lcr_start_continuous
    \/ lcr_stop_continuous
    \/ lcr_continuous_measurement
    \/ apply_lcr_config
    \/ UiCall
    \/ LoggerSetup
    \/ LoggerWhile
    \/ LoggerCall
    \/ LoggerSleep
    \/ LoggerClose

SpecGui == InitGui /\ [][NextGui]_vars

(***************************************************************************)
(* The logging buttons and the logging threads alone, each thread that has *)
(* been started being scheduled again and again.                           *)
(***************************************************************************)
NextLog ==
    \/ gui_auto_connect
    \/ start_logging
    \/ stop_logging
    \/ LoggerSetup
    \/ LoggerWhile
    \/ LoggerCall
    \/ LoggerSleep
    \/ LoggerClose

\* the next step of logging thread i
logger_step(i) ==
    /\ i \in 1..Len(loggers)
    /\ \/ \E a, b \in BOOLEAN : logger_setup(i, a, b)
       \/ logger_while(i)
       \/ \E ok \in BOOLEAN : logger_call(i, ok)
       \/ logger_sleep(i)
       \/ logger_close(i)

SpecLog ==
    /\ InitGui
    /\ [][NextLog]_vars
    /\ \A i \in 1..MaxLoggers : WF_vars(logger_step(i))

(***************************************************************************)
(* TekMSO24.get_waveform: the source selection, the seven preamble         *)
(* queries, the curve request, one read_raw and the decode of the binary   *)
(* block.  Bytes are the integers 0..255.  The reals of the preamble are   *)
(* in thousandths (of a second, of a volt, of a digitizer code); a voltage *)
(* of the result, the product of two of them, is in millionths of a volt.  *)
(* The arithmetic is exact: the rounding of Python floats is left out.     *)
(***************************************************************************)
Hash == 35

NLByte == 10

Zero == 48

IndexError == "IndexError"

StructError == "struct.error"

\* the oscilloscope's side: the decimal digits of a length, as bytes
RECURSIVE lengthDigits(_)
lengthDigits(n) ==
    IF n < 10 THEN <<Zero + n>>
    ELSE Append(lengthDigits(n \div 10), Zero + (n % 10))

\* the oscilloscope's side: one sample as two bytes, most significant first
be16(s) ==
    LET u == IF s < 0 THEN s + 65536 ELSE s
    IN  <<u \div 256, u % 256>>

RECURSIVE payloadOf(_)
payloadOf(samples) ==
    IF samples = <<>> THEN <<>>
    ELSE be16(Head(samples)) \o payloadOf(Tail(samples))

\* the oscilloscope's side: #<N><N digits of length><payload><terminator>
blockOf(first, payload) ==
    LET ds == lengthDigits(Len(payload))
    IN  <<first, Zero + Len(ds)>> \o ds \o payload \o <<NLByte>>

\* the records the oscilloscope may hold
SampleInputs == { <<>>, <<100>>, <<100, -100>>, <<100, -100, 0, 32767, -32768>> }

\* the first byte of the block: '#', or 'X' from an instrument that frames badly
FirstByteInputs == {Hash, 88}

\* payload bytes beyond the samples: none, or one stray byte
PadInputs == { <<>>, <<7>> }

\* the points WFMPRE:NR_PT? reports beyond those CURVE? transfers
SkewInputs == {0, 1}

YmultInputs == {10, 50}

YoffInputs == {0, 2000}

\* the oscilloscope's answers to the seven preamble queries, as text
preambleText(nr_pt, ymult, yoff) ==
    << formatNat(nr_pt), formatMilli(1), formatNat(0), formatMilli(0),
       formatMilli(ymult), formatMilli(yoff), formatMilli(0) >>

device(samples, first, pad, skew, ymult, yoff) ==
    [ samples |-> samples,
      block   |-> blockOf(first, payloadOf(samples) \o pad),
      pre     |-> preambleText(Len(samples) + skew, ymult, yoff) ]

\* the queries with y-multiplier and y-offset asked in the other order
PreambleQueries_swapped ==
    << <<"WFMPRE:NR_PT?">>, <<"WFMPRE:XINCR?">>, <<"WFMPRE:PT_OFF?">>,
       <<"WFMPRE:XZERO?">>, <<"WFMPRE:YOFF?">>, <<"WFMPRE:YMULT?">>,
       <<"WFMPRE:YZERO?">> >>

PreambleQueries ==
    << <<"WFMPRE:NR_PT?">>, <<"WFMPRE:XINCR?">>, <<"WFMPRE:PT_OFF?">>,
       <<"WFMPRE:XZERO?">>, <<"WFMPRE:YMULT?">>, <<"WFMPRE:YOFF?">>,
       <<"WFMPRE:YZERO?">> >>

\* int(text)
pyInt(text) ==
    IF isNatText(text) THEN [ok |-> TRUE, value |-> parseNat(text)]
    ELSE [ok |-> FALSE, value |-> 0]

\* float(text), in thousandths
pyFloat(text) ==
    IF Len(text) > 0 /\ isMilliText(text) THEN [ok |-> TRUE, value |-> parseMilli(text)]
    ELSE IF isNatText(text) THEN [ok |-> TRUE, value |-> 1000 * parseNat(text)]
    ELSE [ok |-> FALSE, value |-> 0]

\* the conversion get_waveform applies to the answer of its k-th query
preambleParse(k, text) == IF k \in {1, 3} THEN pyInt(text) ELSE pyFloat(text)

\* int(chr(b)) succeeds
isDigitByte(b) == Zero <= b /\ b <= Zero + 9

\* a decoder that reads the pair as an unsigned integer ('>H')
s16_unsigned(hi, lo) == hi * 256 + lo

\* one big-endian signed 16-bit integer ('>h')
s16(hi, lo) ==
    LET u == hi * 256 + lo
    IN  IF u >= 32768 THEN u - 65536 ELSE u

\* a decoder that delivers the samples last first
unpack_reversed(data_bytes) ==
    LET n == Len(data_bytes) \div 2
    IN  [i \in 1..n |-> s16(data_bytes[2 * (n + 1 - i) - 1], data_bytes[2 * (n + 1 - i)])]

\* struct.unpack(f'>{len(data_bytes)//2}h', data_bytes), the lengths matching
unpack(data_bytes) ==
    [i \in 1..(Len(data_bytes) \div 2) |-> s16(data_bytes[2 * i - 1], data_bytes[2 * i])]

\* raw_data[header_len:-1]
slice(raw_data, header_len) ==
    IF header_len + 1 > Len(raw_data) - 1 THEN <<>>
    ELSE SubSeq(raw_data, header_len + 1, Len(raw_data) - 1)

\* the decode of raw_data with the preamble values pre, in query order
decode(raw_data, pre) ==
    IF Len(raw_data) < 2 THEN [kind |-> IndexError, value |-> <<>>]
    ELSE IF ~isDigitByte(raw_data[2]) THEN [kind |-> ValueError, value |-> <<>>]
    ELSE
        LET header_len == 2 + (raw_data[2] - Zero)
            data_bytes == slice(raw_data, header_len)
            samples    == unpack(data_bytes)
            xincr == pre[2]
            xzero == pre[4]
            ymult == pre[5]
            yoff  == pre[6]
            yzero == pre[7]
            voltages == [i \in 1..Len(samples) |->
                            (samples[i] * 1000 - yoff) * ymult + yzero * 1000]
            times    == [i \in 1..Len(voltages) |-> xzero + (i - 1) * xincr]
        IN  IF Len(data_bytes) % 2 # 0 THEN [kind |-> StructError, value |-> <<>>]
            ELSE [kind |-> "return",
                  value |-> [t |-> times, v |-> voltages, dt |-> xincr,
                             npts |-> Len(voltages)]]

\* an exception get_waveform does not catch, carried on after as if caught
raises_swallowed(err) == [pc |-> "curve", result |-> [kind |-> err, value |-> <<>>]]

\* an exception raised inside get_waveform, which has no try block, ends the
\* call and reaches the caller
raises(err) == [pc |-> "done", result |-> [kind |-> err, value |-> <<>>]]

InitWfm ==
    /\ lcrIdle
    /\ readIdle
    /\ askIdle
    /\ connIdle
    /\ guiIdle
    /\ queryIdle
    /\ scopeIdle
    /\ measIdle
    /\ useIdle
    /\ timeout = ScopeTimeout
    /\ wfPc = "idle"
    /\ wfPre = <<>>
    /\ wfSent = <<>>
    /\ wfRaw = <<>>
    /\ wfResult = noResult
    /\ wfLast = "none"
    /\ \E samples \in SampleInputs, first \in FirstByteInputs, pad \in PadInputs,
          skew \in SkewInputs, ymult \in YmultInputs, yoff \in YoffInputs :
            wfDev = device(samples, first, pad, skew, ymult, yoff)

\* self.write(f'DATA:SOURCE CH{channel}'); time.sleep(0.1)
wf_begin(channel) ==
    /\ wfPc \in {"idle", "done"}
    /\ wfSent' = << write(<<"DATA:SOURCE CH">> \o formatNat(channel)) >>
    /\ wfPre' = <<>>
    /\ wfRaw' = <<>>
    /\ wfResult' = noResult
    /\ wfLast' = "none"
    /\ wfPc' = "preamble"
    /\ UNCHANGED <<wfDev, frameWfm>>

\* the next of the seven preamble queries: ask writes the query, and either
\* the answer is parsed or ask raises TimeoutError and the capture ends
wf_preamble(answered) ==
    /\ wfPc = "preamble"
    /\ LET k    == Len(wfPre) + 1
           text == strip(wfDev.pre[k] \o <<NL>>)
           val  == preambleParse(k, text)
       IN  /\ wfSent' = Append(wfSent, write(PreambleQueries[k]))
           /\ IF ~answered
              THEN /\ wfResult' = raises(TimeoutError).result
                   /\ wfPc' = raises(TimeoutError).pc
                   /\ wfPre' = wfPre
              ELSE IF ~val.ok
              THEN /\ wfResult' = raises(ValueError).result
                   /\ wfPc' = raises(ValueError).pc
                   /\ wfPre' = wfPre
              ELSE /\ wfResult' = wfResult
                   /\ wfPre' = Append(wfPre, val.value)
                   /\ wfPc' = IF k = Len(PreambleQueries) THEN "curve" ELSE "preamble"
    /\ wfLast' = IF answered THEN "answer" ELSE "timeout"
    /\ UNCHANGED <<wfDev, wfRaw, frameWfm>>

\* self.write('CURVE?'); time.sleep(0.2)
wf_curve ==
    /\ wfPc = "curve"
    /\ wfSent' = Append(wfSent, write(<<"CURVE?">>))
    /\ wfPc' = "read_raw"
    /\ UNCHANGED <<wfDev, wfPre, wfRaw, wfResult, wfLast, frameWfm>>

\* raw_data = self.read_raw() and the decode.  read_raw returns the first
\* non-empty chunk os.read delivers, the first cut bytes of the block, or
\* raises TimeoutError when none arrives (cut = 0).
wf_read(cut) ==
    /\ wfPc = "read_raw"
    /\ cut \in 0..Len(wfDev.block)
    /\ IF cut = 0
       THEN /\ wfRaw' = <<>>
            /\ wfResult' = raises(TimeoutError).result
            /\ wfPc' = raises(TimeoutError).pc
            /\ wfLast' = "timeout"
       ELSE /\ wfRaw' = SubSeq(wfDev.block, 1, cut)
            /\ wfResult' = decode(SubSeq(wfDev.block, 1, cut), wfPre)
            /\ wfPc' = "done"
            /\ wfLast' = "chunk"
    /\ UNCHANGED <<wfDev, wfPre, wfSent, frameWfm>>

ChannelInputs == {1, 2}

WfBegin == \E channel \in ChannelInputs : wf_begin(channel)

WfPreamble == \E answered \in BOOLEAN : wf_preamble(answered)

WfCurve == wf_curve

WfRead == \E cut \in 0..Len(wfDev.block) : wf_read(cut)

NextWfm ==
    \/ WfBegin
    \/ WfPreamble
    \/ WfCurve
    \/ WfRead

SpecWfm == InitWfm /\ [][NextWfm]_vars

(***************************************************************************)
(* BK894.measure and BK894.get_config against an LCR meter that holds a    *)
(* configuration, changed by the commands it is sent and at its front      *)
(* panel, and answers each query in time or not at all.  Readings and the  *)
(* reported frequency are decimal texts, parsed in thousandths.            *)
(***************************************************************************)
\* str.split(',')
RECURSIVE split(_)
split(text) ==
    IF ~contains(text, ",") THEN <<text>>
    ELSE LET i == CHOOSE j \in 1..Len(text) :
                    text[j] = "," /\ \A k \in 1..(j - 1) : text[k] # ","
         IN  <<SubSeq(text, 1, i - 1)>> \o split(SubSeq(text, i + 1, Len(text)))

\* the LCR meter's side: the fields of a response, joined by commas
RECURSIVE joinFields(_)
joinFields(fields) ==
    IF Len(fields) = 0 THEN <<>>
    ELSE IF Len(fields) = 1 THEN fields[1]
    ELSE fields[1] \o <<",">> \o joinFields(Tail(fields))

\* the readings the LCR meter may hold: primary and secondary value in
\* thousandths, and the status code
ReadingInputs == { <<1234, 15, 0>>, <<500, 0, 1>>, <<0, 2500, 17>> }

\* the responses to :FETC? the LCR meter may give for a reading
ShapeInputs == {"triple", "two", "four", "garbled"}

fetchResponse(reading, shape) ==
    LET primary   == formatMilli(reading[1])
        secondary == formatMilli(reading[2])
        status    == formatNat(reading[3])
    IN  CASE shape = "triple"  -> joinFields(<<primary, secondary, status>>)
          [] shape = "two"     -> joinFields(<<primary, secondary>>)
          [] shape = "four"    -> joinFields(<<primary, secondary, status, status>>)
          [] shape = "garbled" -> joinFields(<<primary, <<"-", "-">>, status>>)

\* the configurations set at the front panel
PanelModeInputs == { <<"C","P","D">>, <<"Z","T","R">> }

PanelFreqInputs == {120, 1000}

\* the LCR meter's side: the response to a query
answerOf(query, dev) ==
    IF query = <<":FUNC:IMP?">> THEN dev.mode
    ELSE formatMilli(dev.freq * 1000)

\* a conversion that takes the second field first
measure_value_swapped(parts) ==
    <<pyFloat(parts[2]), pyFloat(parts[1]), pyInt(parts[3])>>

\* float(primary), float(secondary), int(status)
measure_value(parts) ==
    <<pyFloat(parts[1]), pyFloat(parts[2]), pyInt(parts[3])>>

\* the outcome of measure on the text ask returned
measure_result(text) ==
    LET parts == split(text)
    IN  IF Len(parts) # 3 THEN [kind |-> ValueError, value |-> <<>>]
        ELSE LET vals == measure_value(parts)
             IN  IF \E i \in 1..3 : ~vals[i].ok
                 THEN [kind |-> ValueError, value |-> <<>>]
                 ELSE [kind |-> "return",
                       value |-> <<vals[1].value, vals[2].value, vals[3].value>>]

\* the queries get_config would make with the frequency asked first
GetConfigQueries_swapped == << <<":FREQ?">>, <<":FUNC:IMP?">> >>

\* mode = self.ask(':FUNC:IMP?'); freq = float(self.ask(':FREQ?'))
GetConfigQueries == << <<":FUNC:IMP?">>, <<":FREQ?">> >>

opOutcome(res) == IF res.kind = "return" THEN "ok" ELSE res.kind

InitQuery ==
    /\ lcrIdle
    /\ readIdle
    /\ askIdle
    /\ connIdle
    /\ guiIdle
    /\ wfIdle
    /\ scopeIdle
    /\ measIdle
    /\ useIdle
    /\ timeout = DefaultTimeout
    /\ lcrHeard = <<>>
    /\ lcrResult = noResult
    /\ \E mode \in PanelModeInputs, freq \in PanelFreqInputs :
            lcrDev = [mode |-> mode, freq |-> freq, reading |-> <<>>]

\* result = self.ask(':FETC?'); primary, secondary, status = result.split(',');
\* return float(primary), float(secondary), int(status)
measure(reading, shape, answered) ==
    /\ opCount < MaxOps
    /\ opCount' = opCount + 1
    /\ sent' = Append(sent, write(<<":FETC?">>))
    /\ reads' = reads + 1
    /\ lcrDev' = [lcrDev EXCEPT !.reading = reading]
    /\ LET response == fetchResponse(reading, shape)
           res == IF answered THEN measure_result(strip(response \o <<NL>>))
                  ELSE [kind |-> TimeoutError, value |-> <<>>]
       IN  /\ lcrHeard' = IF answered THEN <<response>> ELSE <<>>
           /\ lcrResult' = res
           /\ lastOp' = [op |-> "measure", arg |-> <<>>, result |-> opOutcome(res)]
    /\ UNCHANGED frameQuery

\* mode = self.ask(':FUNC:IMP?'); freq = float(self.ask(':FREQ?'));
\* return {'mode': mode, 'frequency': freq}
BK894_get_config(answered1, answered2) ==
    /\ opCount < MaxOps
    /\ opCount' = opCount + 1
    /\ LET q1 == GetConfigQueries[1]
           q2 == GetConfigQueries[2]
           a1 == answerOf(q1, lcrDev)
           a2 == answerOf(q2, lcrDev)
           mode == strip(a1 \o <<NL>>)
           freq == pyFloat(strip(a2 \o <<NL>>))
           res == IF ~answered1 \/ ~answered2 THEN [kind |-> TimeoutError, value |-> <<>>]
                  ELSE IF ~freq.ok THEN [kind |-> ValueError, value |-> <<>>]
                  ELSE [kind |-> "return",
                        value |-> [mode |-> mode, frequency |-> freq.value]]
       IN  /\ sent' = IF answered1 THEN sent \o <<write(q1), write(q2)>>
                      ELSE Append(sent, write(q1))
           /\ reads' = IF answered1 THEN reads + 2 ELSE reads + 1
           /\ lcrHeard' = IF ~answered1 THEN <<>>
                          ELSE IF ~answered2 THEN <<a1>> ELSE <<a1, a2>>
           /\ lcrResult' = res
           /\ lastOp' = [op |-> "get_config", arg |-> <<>>, result |-> opOutcome(res)]
    /\ UNCHANGED <<lcrDev, frameQuery>>

\* the LCR meter's side: the mode or the frequency is changed at the front panel
front_panel(mode, freq) ==
    /\ lcrDev' = [lcrDev EXCEPT !.mode = mode, !.freq = freq]
    /\ lcrDev' # lcrDev
    /\ UNCHANGED <<lcrVars, lcrHeard, lcrResult, frameQuery>>

\* the LCR meter's side: the last configuration command sent takes effect
instrument_applies ==
    /\ sent # <<>>
    /\ headerOf(Last(sent)) \in {":FUNC:IMP ", ":FREQ "}
    /\ lcrDev' = IF headerOf(Last(sent)) = ":FUNC:IMP "
                 THEN [lcrDev EXCEPT !.mode = argumentOf(Last(sent))]
                 ELSE [lcrDev EXCEPT !.freq = parseNat(argumentOf(Last(sent)))]
    /\ lcrDev' # lcrDev
    /\ UNCHANGED <<lcrVars, lcrHeard, lcrResult, frameQuery>>

Measure ==
    \E reading \in ReadingInputs, shape \in ShapeInputs, answered \in BOOLEAN :
        measure(reading, shape, answered)

GetConfig == \E answered1 \in BOOLEAN, answered2 \in BOOLEAN :
                BK894_get_config(answered1, answered2)

FrontPanel == \E mode \in PanelModeInputs, freq \in PanelFreqInputs :
                front_panel(mode, freq)

InstrumentApplies == instrument_applies

NextQuery ==
    \/ Measure
    \/ GetConfig
    \/ SetMode
    \/ SetFrequency
    \/ FrontPanel
    \/ InstrumentApplies

SpecQuery == InitQuery /\ [][NextQuery]_vars

(***************************************************************************)
(* TekMSO24: the operations that take a channel index.  The vertical scale *)
(* is a float given in thousandths of a volt per division.                 *)
(***************************************************************************)
\* the number of channel operations made on the oscilloscope
MaxScopeOps == 2

\* the channel indices the operations are tried on
ChannelIndexInputs == {0 - 1, 0, 1, 4, 5}

ScaleInputs == {500, 1000}

CouplingInputs == { <<"D","C">>, <<"A","C">> }

InitScope ==
    /\ lcrIdle
    /\ readIdle
    /\ askIdle
    /\ connIdle
    /\ guiIdle
    /\ wfIdle
    /\ queryIdle
    /\ scopeIdle
    /\ measIdle
    /\ useIdle
    /\ timeout = ScopeTimeout

\* state = 'ON' if enable else 'OFF'; self.write(f'SELECT:CH{channel} {state}')
set_channel_enable(channel, enable) ==
    /\ scopeCount < MaxScopeOps
    /\ scopeCount' = scopeCount + 1
    /\ LET state == IF enable THEN <<"ON">> ELSE <<"OFF">>
       IN  scopeSent' = Append(scopeSent,
                write(<<"SELECT:CH">> \o formatInt(channel) \o <<" ">> \o state))
    /\ scopeOp' = [op |-> "set_channel_enable", channel |-> channel, result |-> "ok"]
    /\ UNCHANGED acqDev
    /\ UNCHANGED frameScope

\* self.write(f'CH{channel}:SCALE {scale}');
\* self.write(f'CH{channel}:POSITION {position}');
\* self.write(f'CH{channel}:COUPLING {coupling}')
set_vertical(channel, scale, position, coupling) ==
    /\ scopeCount < MaxScopeOps
    /\ scopeCount' = scopeCount + 1
    /\ LET ch == <<"CH">> \o formatInt(channel)
       IN  scopeSent' = scopeSent \o
                << write(ch \o <<":SCALE ">> \o formatMilli(scale)),
                   write(ch \o <<":POSITION ">> \o formatInt(position)),
                   write(ch \o <<":COUPLING ">> \o coupling) >>
    /\ scopeOp' = [op |-> "set_vertical", channel |-> channel, result |-> "ok"]
    /\ UNCHANGED acqDev
    /\ UNCHANGED frameScope

SetChannelEnable ==
    \E channel \in ChannelIndexInputs, enable \in BOOLEAN :
        set_channel_enable(channel, enable)

SetVertical ==
    \E channel \in ChannelIndexInputs, scale \in ScaleInputs,
       coupling \in CouplingInputs :
        set_vertical(channel, scale, 0, coupling)

NextScope ==
    \/ SetChannelEnable
    \/ SetVertical

SpecScope == InitScope /\ [][NextScope]_vars

(***************************************************************************)
(* TekMSO24.single / run / stop, against an oscilloscope that applies each *)
(* acquisition command as it reads it and stops by itself once a single    *)
(* sequence has been acquired.                                             *)
(***************************************************************************)
MaxAcqOps == 4

singleCommands == << <<"ACQUIRE:STOPAFTER ", "SEQUENCE">>, <<"ACQUIRE:STATE ", "RUN">> >>

runCommands_stateFirst == << <<"ACQUIRE:STATE ", "RUN">>, <<"ACQUIRE:STOPAFTER ", "RUNSTOP">> >>

runCommands == << <<"ACQUIRE:STOPAFTER ", "RUNSTOP">>, <<"ACQUIRE:STATE ", "RUN">> >>

stopCommands == << <<"ACQUIRE:STATE ", "STOP">> >>

\* the oscilloscope's side: the acquisition settings after it has read one
\* command
acqApply(dev, bytes) ==
    CASE headerOf(bytes) = "ACQUIRE:STOPAFTER " -> [dev EXCEPT !.stopafter = bytes[2]]
      [] headerOf(bytes) = "ACQUIRE:STATE " -> [dev EXCEPT !.state = bytes[2]]
      [] OTHER -> dev

RECURSIVE acqAfter(_, _)
acqAfter(dev, log) ==
    IF log = <<>> THEN dev ELSE acqAfter(acqApply(dev, Head(log)), Tail(log))

\* the acquisition state the settings amount to
acqState(dev) ==
    IF dev.state = "STOP" THEN "STOPPED"
    ELSE IF dev.stopafter = "SEQUENCE" THEN "SINGLE_ARMED"
    ELSE "RUN"

wrAll(commands) == [i \in 1..Len(commands) |-> write(commands[i])]

InitAcq ==
    /\ lcrIdle
    /\ readIdle
    /\ askIdle
    /\ connIdle
    /\ guiIdle
    /\ wfIdle
    /\ queryIdle
    /\ measIdle
    /\ useIdle
    /\ timeout = ScopeTimeout
    /\ scopeSent = <<>>
    /\ scopeOp = [op |-> "none", channel |-> 0, result |-> "none"]
    /\ scopeCount = 0
    /\ acqDev \in [stopafter : {"RUNSTOP", "SEQUENCE"}, state : {"RUN", "STOP"}]

\* one acquisition operation: its writes, in order, each applied by the
\* oscilloscope
acquire(op, commands) ==
    /\ scopeCount' = scopeCount + 1
    /\ scopeSent' = scopeSent \o wrAll(commands)
    /\ acqDev' = acqAfter(acqDev, wrAll(commands))
    /\ scopeOp' = [op |-> op, channel |-> 0, result |-> "ok"]
    /\ UNCHANGED frameScope

single ==
    /\ scopeCount < MaxAcqOps
    /\ acquire("single", singleCommands)

run ==
    /\ scopeCount < MaxAcqOps
    /\ acquire("run", runCommands)

stop ==
    /\ scopeCount < MaxAcqOps
    /\ acquire("stop", stopCommands)

\* the oscilloscope's side: the armed sequence has been acquired
acq_complete ==
    /\ acqDev.state = "RUN"
    /\ acqDev.stopafter = "SEQUENCE"
    /\ acqDev' = [acqDev EXCEPT !.state = "STOP"]
    /\ UNCHANGED <<scopeSent, scopeOp, scopeCount>>
    /\ UNCHANGED frameScope

NextAcq == single \/ run \/ stop \/ acq_complete

SpecAcq == InitAcq /\ [][NextAcq]_vars

(***************************************************************************)
(* TekMSO24.measure and TekMSO24.get_all_measurements.  A measurement      *)
(* value is the number m * 10^e, kept with m not a multiple of ten; the    *)
(* rounding of Python floats is left out, and so are the texts 'inf' and   *)
(* 'nan'.                                                                  *)
(***************************************************************************)
SentinelExp == 30

RECURSIVE pow10(_)
pow10(n) == IF n = 0 THEN 1 ELSE 10 * pow10(n - 1)

abs(n) == IF n < 0 THEN 0 - n ELSE n

RECURSIVE normalise(_, _)
normalise(m, e) ==
    IF m = 0 THEN [none |-> FALSE, m |-> 0, e |-> 0]
    ELSE IF m % 10 = 0 THEN normalise(m \div 10, e + 1)
    ELSE [none |-> FALSE, m |-> m, e |-> e]

\* the position of the first character of s that is in cs, 0 when none is
indexOf(s, cs) ==
    IF \E i \in 1..Len(s) : s[i] \in cs
    THEN CHOOSE i \in 1..Len(s) : s[i] \in cs /\ \A j \in 1..(i - 1) : s[j] \notin cs
    ELSE 0

unsigned(t) == IF Len(t) > 0 /\ t[1] \in {"+", "-"} THEN Tail(t) ELSE t

signOf(t) == IF Len(t) > 0 /\ t[1] = "-" THEN 0 - 1 ELSE 1

\* float(text) for a decimal text with an optional sign, fraction and
\* exponent: whether it parses, and the number
float(text) ==
    LET ePos  == indexOf(text, {"e", "E"})
        mant  == IF ePos = 0 THEN text ELSE SubSeq(text, 1, ePos - 1)
        expo  == IF ePos = 0 THEN <<"0">> ELSE SubSeq(text, ePos + 1, Len(text))
        mu    == unsigned(mant)
        eu    == unsigned(expo)
        dot   == indexOf(mu, {"."})
        digs  == SelectSeq(mu, LAMBDA c : c # ".")
        frac  == IF dot = 0 THEN 0 ELSE Len(mu) - dot
        ok    == /\ Cardinality({i \in 1..Len(mu) : mu[i] = "."}) <= 1
                 /\ isNatText(digs)
                 /\ isNatText(eu)
    IN  IF ok THEN [ok |-> TRUE,
                    value |-> normalise(signOf(mant) * parseNat(digs),
                                        signOf(expo) * parseNat(eu) - frac)]
        ELSE [ok |-> FALSE, value |-> None]

\* a test that also takes a magnitude equal to the threshold
exceeds_inclusive(val) ==
    LET a == abs(val.m)
    IN  a # 0 /\ val.e + Len(formatNat(a)) - 1 >= SentinelExp

\* abs(val) > 1e30
exceeds(val) ==
    LET a   == abs(val.m)
        d   == Len(formatNat(a))
        top == val.e + d - 1
    IN  a # 0 /\ (top > SentinelExp \/ (top = SentinelExp /\ a > pow10(d - 1)))

\* the statements of measure after the value query returned `text`
measure_outcome(text) ==
    LET val == float(text)
    IN  IF ~val.ok THEN None
        ELSE IF exceeds(val.value) THEN None
        ELSE val.value

\* the commands of one measure call with the source selected first
measureCommands_sourceFirst(meas_type, channel) ==
    << <<"MEASUREMENT:IMMED:SOURCE CH">> \o formatInt(channel),
       <<"MEASUREMENT:IMMED:TYPE ">> \o meas_type,
       <<"MEASUREMENT:IMMED:VALUE?">> >>

\* the commands of one measure call: two writes and the query of ask
measureCommands(meas_type, channel) ==
    << <<"MEASUREMENT:IMMED:TYPE ">> \o meas_type,
       <<"MEASUREMENT:IMMED:SOURCE CH">> \o formatInt(channel),
       <<"MEASUREMENT:IMMED:VALUE?">> >>

measureWrites(meas_type, channel) ==
    [i \in 1..3 |-> write(measureCommands(meas_type, channel)[i])]

\* str.lower() on one character
lowerChar(c) ==
    IF \E i \in 1..Len(UpperCase) : UpperCase[i] = c
    THEN LowerCase[CHOOSE i \in 1..Len(UpperCase) : UpperCase[i] = c]
    ELSE c

\* str.lower()
lower(s) == [i \in 1..Len(s) |-> lowerChar(s[i])]

\* the oscilloscope's side: a number in the notation d.ddE+xx or d.dde-x
renderSci(v, style) ==
    LET digits == formatNat(abs(v.m))
        exp10  == v.e + Len(digits) - 1
        mant   == <<digits[1], ".">> \o
                    (IF Len(digits) > 1 THEN Tail(digits) ELSE <<"0">>)
        sign   == IF v.m < 0 THEN <<"-">> ELSE <<>>
    IN  sign \o mant \o
        (IF style = "E+"
         THEN <<"E", IF exp10 < 0 THEN "-" ELSE "+">> \o formatNat(abs(exp10))
         ELSE <<"e">> \o formatInt(exp10))

\* the oscilloscope's side: a number of at most three decimals without exponent
renderPlain(v) == formatMilli(v.m * pow10(3 + v.e))

render(v, style) == IF style = "plain" THEN renderPlain(v) ELSE renderSci(v, style)

\* the values whose magnitude is above 10^30
AboveInputs ==
    { [m |-> 99, e |-> 36], [m |-> 0 - 99, e |-> 36], [m |-> 991, e |-> 35],
      [m |-> 11, e |-> 29], [m |-> 0 - 100001, e |-> 25] }

\* the values whose magnitude is at most 10^30
WithinInputs ==
    { [m |-> 1, e |-> 30], [m |-> 0 - 1, e |-> 30], [m |-> 999, e |-> 27],
      [m |-> 10005, e |-> 0 - 1], [m |-> 0, e |-> 0], [m |-> 0 - 25, e |-> 0 - 1],
      [m |-> 5, e |-> 0 - 10] }

StyleInputs == {"E+", "e", "plain"}

\* the responses that are no number
GarbageInputs == { <<"-", "-">>, <<"O", "V", "E", "R">>, <<"1", ".", "2", ".", "3">> }

\* what the oscilloscope may answer to a value query: a number in one of its
\* notations, a text that is no number, or nothing before the deadline
AnswerInputs ==
    { [kind |-> "number", text |-> render(v, style), m |-> v.m, e |-> v.e] :
        v \in AboveInputs \cup WithinInputs, style \in {"E+", "e"} }
    \cup
    { [kind |-> "number", text |-> render(v, "plain"), m |-> v.m, e |-> v.e] :
        v \in {w \in WithinInputs : 0 - 3 <= w.e /\ w.e <= 0} }
    \cup
    { [kind |-> "garbage", text |-> t, m |-> 0, e |-> 0] : t \in GarbageInputs }
    \cup
    { [kind |-> "silent", text |-> <<>>, m |-> 0, e |-> 0] }

\* the answers tried on each of the six queries of get_all_measurements
GaAnswerInputs ==
    { a \in AnswerInputs :
        \/ a.kind = "silent"
        \/ a.kind = "garbage" /\ a.text = <<"-", "-">>
        \/ a.kind = "number" /\ a.text \in { <<"1", "0", "0", "0", ".", "5">>,
                                             <<"9", ".", "9", "e", "3", "7">> } }

MeasTypeInputs == { <<"F","R","E","Q">>, <<"R","I","S","E">> }

MeasChannelInputs == {1, 2}

InitMeas ==
    /\ lcrIdle
    /\ readIdle
    /\ askIdle
    /\ connIdle
    /\ guiIdle
    /\ wfIdle
    /\ queryIdle
    /\ scopeIdle
    /\ measIdle
    /\ useIdle
    /\ timeout = ScopeTimeout

\* one call of measure: its writes, and its result on what ask returned or
\* raised
measure_call(meas_type, channel, answer) ==
    [writes |-> measureWrites(meas_type, channel),
     result |-> IF answer.kind = "silent"
                THEN [kind |-> TimeoutError, value |-> None]
                ELSE [kind |-> "return",
                      value |-> measure_outcome(strip(answer.text \o <<NL>>))]]

\* TekMSO24.measure called by itself
TekMSO24_measure(meas_type, channel, answer) ==
    /\ ga.pc # "loop"
    /\ LET c == measure_call(meas_type, channel, answer)
       IN  /\ msSent' = c.writes
           /\ msResult' = c.result
    /\ msHeard' = answer
    /\ ga' = gaIdle
    /\ UNCHANGED scopeLabels
    /\ UNCHANGED frameMeas

\* measurements = {}
ga_begin(channel) ==
    /\ ga.pc # "loop"
    /\ ga' = [pc |-> "loop", channel |-> channel, k |-> 1, map |-> <<>>,
              result |-> "none"]
    /\ msSent' = <<>>
    /\ msHeard' = [kind |-> "none", text |-> <<>>, m |-> 0, e |-> 0]
    /\ msResult' = [kind |-> "none", value |-> None]
    /\ UNCHANGED scopeLabels
    /\ UNCHANGED frameMeas

\* measurements[meas.lower()] = self.measure(meas, channel) for the next of
\* the six types, and return measurements after the last; an exception of
\* measure ends the call
ga_measure(answer) ==
    /\ ga.pc = "loop"
    /\ LET meas == MeasTypes[ga.k]
           c    == measure_call(meas, ga.channel, answer)
       IN  /\ msSent' = msSent \o c.writes
           /\ msResult' = c.result
           /\ ga' = IF c.result.kind # "return"
                    THEN [ga EXCEPT !.pc = "done", !.result = c.result.kind]
                    ELSE [ga EXCEPT
                            !.map = Append(ga.map, [key |-> lower(meas),
                                                    value |-> c.result.value]),
                            !.k = ga.k + 1,
                            !.pc = IF ga.k = Len(MeasTypes) THEN "done" ELSE "loop",
                            !.result = IF ga.k = Len(MeasTypes) THEN "return"
                                       ELSE "none"]
    /\ msHeard' = answer
    /\ UNCHANGED scopeLabels
    /\ UNCHANGED frameMeas

ScopeMeasure ==
    \E meas_type \in MeasTypeInputs, channel \in MeasChannelInputs,
       answer \in AnswerInputs :
        TekMSO24_measure(meas_type, channel, answer)

GaBegin == \E channel \in MeasChannelInputs : ga_begin(channel)

GaMeasure == \E answer \in GaAnswerInputs : ga_measure(answer)

NextMeas ==
    \/ ScopeMeasure
    \/ GaBegin
    \/ GaMeasure

SpecMeas == InitMeas /\ [][NextMeas]_vars

(***************************************************************************)
(* InstrumentControlGUI.scope_get_measurements: get_all_measurements, then *)
(* the labels of the channel are set from the mapping it returned.         *)
(***************************************************************************)
\* str.replace(c, '')
RECURSIVE removeChar(_, _)
removeChar(text, c) ==
    IF text = <<>> THEN <<>>
    ELSE IF Head(text) = c THEN removeChar(Tail(text), c)
    ELSE <<Head(text)>> \o removeChar(Tail(text), c)

\* ch_labels[meas.lower().replace('-', '')] = label
labelKey(name) == removeChar(lower(name), "-")

\* for key, value in meas.items(): label_key = key.replace('_', ''); a label
\* of that key is set to the value, or to "No signal" for None
RECURSIVE setLabels(_, _)
setLabels(labels, items) ==
    IF items = <<>> THEN labels
    ELSE LET label_key == removeChar(Head(items).key, "_")
             value     == Head(items).value
             set(l)    == IF labelKey(l.name) # label_key THEN l
                          ELSE IF value # None
                          THEN [l EXCEPT !.shown = "value", !.value = value]
                          ELSE [l EXCEPT !.shown = "No signal", !.value = None]
         IN  setLabels([i \in 1..Len(labels) |-> set(labels[i])], Tail(items))

\* the handler from the return of get_all_measurements on: the labels are
\* set, or the exception is reported and they are left as they were
scope_get_measurements ==
    /\ ga.pc = "done"
    /\ ga' = [ga EXCEPT !.pc = "shown"]
    /\ scopeLabels' = IF ga.result = "return"
                      THEN [scopeLabels EXCEPT
                              ![ga.channel] = setLabels(scopeLabels[ga.channel], ga.map)]
                      ELSE scopeLabels
    /\ UNCHANGED <<msSent, msHeard, msResult>>
    /\ UNCHANGED frameMeas

NextLabels ==
    \/ GaBegin
    \/ GaMeasure
    \/ scope_get_measurements

SpecLabels == InitMeas /\ [][NextLabels]_vars

\* a step that completes a driver operation
opDone == opCount' = opCount + 1

\* the argument of the operation is outside its legal range
outOfRange(o) ==
    \/ o.op = "set_frequency" /\ ~(100 <= o.arg /\ o.arg <= 200000)
    \/ o.op = "set_voltage" /\ ~(10 <= o.arg /\ o.arg <= 2000)
    \/ o.op = "set_mode" /\ upper(o.arg) \notin MODES

inRange(o) ==
    \/ o.op = "set_frequency" /\ 100 <= o.arg /\ o.arg <= 200000
    \/ o.op = "set_voltage" /\ 10 <= o.arg /\ o.arg <= 2000
    \/ o.op = "set_mode" /\ upper(o.arg) \in MODES

\* C1 (as amended): a frequency outside [100, 200000], a voltage outside
\* [0.01, 2.0] or a mode whose upper-cased spelling is outside the enumerated
\* set makes the operation fail with InvalidParameter without any write or
\* read, and every byte string the device was ever sent carries a legal
\* frequency, voltage or mode.
C1_InvalidRejectedNeverSent ==
    /\ [](\A i \in 1..Len(sent) : legalForDevice(sent[i]))
    /\ [][(opDone /\ outOfRange(lastOp'))
            => (lastOp'.result = ValueError /\ sent' = sent /\ reads' = reads)]_vars

\* C1 witness: an out-of-range voltage was rejected after an earlier command
\* had been sent.
C1_Witness ==
    /\ lastOp = [op |-> "set_voltage", arg |-> 2001, result |-> ValueError]
    /\ Len(sent) = 1

\* C1 as originally stated: every mode that is not itself a member of the
\* enumerated set (and every out-of-range frequency or voltage) is rejected
\* with zero commands sent.
C1_Original ==
    [][(opDone /\ (outOfRange(lastOp')
                    \/ (lastOp'.op = "set_mode" /\ lastOp'.arg \notin MODES)))
        => (lastOp'.result = ValueError /\ sent' = sent /\ reads' = reads)]_vars

\* C2: a frequency in [100, 200000], a voltage in [0.01, 2.0] or a legal mode
\* makes the operation succeed with exactly one write, which carries that
\* value and ends with one terminator, and with no read.
C2_ValidSendsOneCommand ==
    [][(opDone /\ inRange(lastOp'))
        => /\ lastOp'.result = "ok"
           /\ Len(sent') = Len(sent) + 1
           /\ SubSeq(sent', 1, Len(sent)) = sent
           /\ reads' = reads
           /\ LET bytes == sent'[Len(sent')]
                  arg   == argumentOf(bytes)
              IN  /\ Last(bytes) = NL
                  /\ \A i \in 1..(Len(bytes) - 1) : bytes[i] # NL
                  /\ lastOp'.op = "set_frequency" =>
                        headerOf(bytes) = ":FREQ " /\ parseNat(arg) = lastOp'.arg
                  /\ lastOp'.op = "set_voltage" =>
                        headerOf(bytes) = ":LEV:VOLT " /\ parseMilli(arg) = lastOp'.arg
                  /\ lastOp'.op = "set_mode" =>
                        headerOf(bytes) = ":FUNC:IMP " /\ arg = upper(lastOp'.arg)]_vars

\* C2 witness: the upper bound of the frequency range was accepted as the
\* second command of a sequence.
C2_Witness ==
    /\ lastOp = [op |-> "set_frequency", arg |-> 200000, result |-> "ok"]
    /\ Len(sent) = 2

\* C3: read and read_raw end no later than `timeout` after the call started,
\* and no os.read is started once the deadline has passed.
C3_EndsByDeadline ==
    /\ rdPc = "done" => now <= startTime + timeout
    /\ rdPc = "os_read" => now < end_time

\* C4: when read() ends at the deadline without a terminator in the
\* accumulated buffer it fails with ReadTimeout, also when some bytes were
\* received: the partial text is not returned.
C4_NoTerminatorIsTimeout ==
    (rdKind = "read" /\ rdPc = "done" /\ ~contains(data, NL) /\ chanLast # "EIO")
        => result.kind = TimeoutError

\* C5: a would-block result of os.read never ends the call: the call sleeps
\* the poll interval and, the deadline not yet passed, reads again, so a call
\* whose last channel result was would-block ends only at or after the
\* deadline; any other channel error ends the call at once with that error,
\* whatever has been accumulated.
C5_WouldBlockRetriesOtherErrorsRaise ==
    /\ []((rdPc = "done" /\ chanLast = "EAGAIN") => now >= end_time)
    /\ []((rdPc = "done" /\ chanLast = "EIO") => result.kind = OSError)
    /\ [][(rdPc = "os_read" /\ chanLast' = "EAGAIN")
            => (rdPc' = "sleep" /\ result' = noResult /\ data' = data)]_vars
    /\ [][(rdPc = "os_read" /\ chanLast' = "EIO")
            => (rdPc' = "done" /\ result' = [kind |-> OSError, value |-> <<>>])]_vars
    /\ [][rdPc = "sleep" => (rdPc' = "while" /\ now' = now + PollInterval)]_vars
    /\ [][(rdPc = "while" /\ now < end_time) => rdPc' = "os_read"]_vars

\* C5 witness: after a would-block result, with bytes already accumulated,
\* the call is reading again.
C5_Witness == rdPc = "os_read" /\ chanLast = "EAGAIN" /\ data # <<>> /\ now > startTime

\* C6: the text a query returns is the instrument's response to that same
\* query's command, also after an earlier query timed out and its response
\* arrived late, and after a waveform capture.
C6_AnswerBelongsToQuery ==
    (lastAsk.op = "ask" /\ lastAsk.result.kind = "return")
        => lastAsk.result.value = strip(answerTo(lastAsk.bytes))

\* C7 (its safety part): no channel is released more than once, and the
\* channel of a Connection is released only by a close on that Connection,
\* never by a close on another, already closed, Connection.
C7_ReleasedOnceByOwner ==
    \A i \in 1..Len(inst) :
        /\ inst[i].releases <= 1
        /\ inst[i].conn => inst[i].releasedBy \in {0, i}

\* a thread has written a query's command on Connection c and has not yet
\* read the response
midQuery(todo, c) == todo # <<>> /\ Head(todo).kind = "read" /\ Head(todo).conn = c

\* a thread's next channel call is on Connection c
nextOn(todo, c) == todo # <<>> /\ Head(todo).conn = c

\* C8: no query's write-then-read pair on a Connection is interleaved with a
\* channel call of another caller on the same Connection: while the UI thread
\* is between the write and the read of a query no logging thread is about to
\* write to or read from that Connection, and the other way round.
C8_OneCallerPerConnection ==
    \A c \in {"lcr", "scope"} : \A i \in 1..Len(loggers) :
        /\ ~(midQuery(ui.todo, c) /\ nextOn(loggers[i].todo, c))
        /\ ~(midQuery(loggers[i].todo, c) /\ nextOn(ui.todo, c))

\* the payload byte length a block declares in its header
RECURSIVE bytesToNat(_)
bytesToNat(ds) ==
    IF Len(ds) = 0 THEN 0
    ELSE 10 * bytesToNat(SubSeq(ds, 1, Len(ds) - 1)) + (Last(ds) - Zero)

declaredLength(block) == bytesToNat(SubSeq(block, 3, 2 + (block[2] - Zero)))

\* get_waveform has returned a waveform
wfReturned == wfPc = "done" /\ wfResult.kind = "return"

\* C9: get_waveform never returns a truncated waveform: a waveform it
\* returns has as many samples as the payload byte length declared in the
\* block header holds (two bytes each), however the transport delivered
\* the block.
C9_NoTruncatedWaveform ==
    wfReturned => 2 * wfResult.value.npts = declaredLength(wfDev.block)

\* C10: a waveform get_waveform returns from a block it received whole has
\* as many samples as the sample count the preamble query reported.
C10_SampleCountMatchesPreamble ==
    (wfReturned /\ wfRaw = wfDev.block) => wfResult.value.npts = wfPre[1]

\* C11: a curve response whose first byte is not '#', received whole, never
\* makes get_waveform return a waveform.
C11_BadFirstByteFails ==
    (wfPc = "done" /\ wfRaw = wfDev.block /\ wfDev.block[1] # Hash)
        => wfResult.kind # "return"

\* the bytes of a block before its terminator: the header and the payload
beforeTerminator(block) == SubSeq(block, 1, Len(block) - 1)

\* C12: a curve response whose payload byte length is odd, all of whose
\* payload bytes read_raw obtained, never makes get_waveform return a
\* waveform.
C12_OddPayloadFails ==
    (/\ wfPc = "done"
     /\ declaredLength(wfDev.block) % 2 = 1
     /\ wfRaw \in {wfDev.block, beforeTerminator(wfDev.block)})
        => wfResult.kind # "return"

\* raw is a well-formed block: '#', one digit N, N digits of an even length,
\* that many payload bytes and one terminator byte
wellFormed(raw) ==
    /\ Len(raw) >= 4
    /\ raw[1] = Hash
    /\ isDigitByte(raw[2])
    /\ raw[2] - Zero >= 1
    /\ Len(raw) >= 2 + (raw[2] - Zero)
    /\ \A i \in 3..(2 + (raw[2] - Zero)) : isDigitByte(raw[i])
    /\ declaredLength(raw) % 2 = 0
    /\ Len(raw) = 2 + (raw[2] - Zero) + declaredLength(raw) + 1
    /\ Last(raw) = NLByte

\* voltage = (s - y_offset) * y_multiplier + y_zero, in millionths of a volt
expectedVoltage(sample) == (sample * 1000 - wfPre[6]) * wfPre[5] + wfPre[7] * 1000

\* time = x_zero + i * x_increment for the sample of index i (from 0)
expectedTime(i) == wfPre[4] + i * wfPre[2]

\* C13: from a well-formed block get_waveform returns, for the samples the
\* oscilloscope encoded as signed 16-bit big-endian pairs after a header of
\* 2 + N bytes and before the terminator, voltage[i] = (s_i - y_offset) *
\* y_multiplier + y_zero and time[i] = x_zero + i * x_increment.
C13_DecodeOfWellFormedBlock ==
    (wfPc = "done" /\ wfRaw # <<>> /\ wellFormed(wfRaw))
        => /\ wfResult.kind = "return"
           /\ wfResult.value.v =
                [i \in 1..Len(wfDev.samples) |-> expectedVoltage(wfDev.samples[i])]
           /\ wfResult.value.t =
                [i \in 1..Len(wfDev.samples) |-> expectedTime(i - 1)]

\* C13 witness: a well-formed block of five samples, negative ones among
\* them, was decoded with a non-zero y-offset.
C13_Witness ==
    /\ wfReturned
    /\ wellFormed(wfRaw)
    /\ wfResult.value.npts = 5
    /\ wfPre[6] # 0
    /\ wfResult.value.v[2] < 0

\* C14: every waveform get_waveform returns has times and voltages of equal
\* length, that length is the reported count npts, the reported time step is
\* the queried x-increment, and element i of each array is the conversion of
\* the i-th sample the oscilloscope put on the wire.
C14_ArraysAlignedInWireOrder ==
    wfReturned =>
        /\ Len(wfResult.value.t) = Len(wfResult.value.v)
        /\ Len(wfResult.value.v) = wfResult.value.npts
        /\ wfResult.value.dt = wfPre[2]
        /\ wfResult.value.npts <= Len(wfDev.samples)
        /\ \A i \in 1..wfResult.value.npts :
            /\ wfResult.value.v[i] = expectedVoltage(wfDev.samples[i])
            /\ wfResult.value.t[i] = expectedTime(i - 1)

\* C14 witness: a waveform of at least two different samples was returned.
C14_Witness ==
    /\ wfReturned
    /\ wfResult.value.npts >= 2
    /\ wfResult.value.v[1] # wfResult.value.v[2]
    /\ wfResult.value.t[1] # wfResult.value.t[2]

\* C15: when a preamble query or the curve read of get_waveform times out,
\* the call has ended with TimeoutError (so no waveform is returned), and
\* that call writes and reads nothing more: the next traffic is the source
\* selection of a new call.
C15_TimeoutAbortsCapture ==
    /\ [](wfLast = "timeout" => (wfPc = "done" /\ wfResult.kind = TimeoutError))
    /\ [][wfLast = "timeout"
            => \/ wfSent' = wfSent /\ wfRaw' = wfRaw
               \/ wfLast' = "none" /\ Len(wfSent') = 1]_vars

\* C15 witness: the fourth preamble query timed out after three were answered.
C15_Witness ==
    /\ wfLast = "timeout"
    /\ Len(wfPre) = 3
    /\ Len(wfSent) = 5
    /\ wfResult.kind = TimeoutError

\* the traffic of one capture on channel ch, as the byte strings written
expectedTraffic(ch) ==
    << <<"DATA:SOURCE CH">> \o formatNat(ch) \o <<NL>>,
       <<"WFMPRE:NR_PT?", NL>>, <<"WFMPRE:XINCR?", NL>>, <<"WFMPRE:PT_OFF?", NL>>,
       <<"WFMPRE:XZERO?", NL>>, <<"WFMPRE:YMULT?", NL>>, <<"WFMPRE:YOFF?", NL>>,
       <<"WFMPRE:YZERO?", NL>>, <<"CURVE?", NL>> >>

isPrefix(p, q) == Len(p) <= Len(q) /\ p = SubSeq(q, 1, Len(p))

\* C16: the byte strings get_waveform writes are, in order, the source
\* selection of the channel, the seven preamble queries (sample count,
\* x-increment, x-origin offset index, x-zero, y-multiplier, y-offset,
\* y-zero) and the curve request; each query is written only after the
\* answers to those before it were received, the curve request only after
\* all seven, and the one raw read is made only after the curve request.
C16_TrafficOrder ==
    /\ [](/\ \E ch \in ChannelInputs : isPrefix(wfSent, expectedTraffic(ch))
          /\ Len(wfSent) <= Len(wfPre) + 2
          /\ Len(wfSent) = 9 => Len(wfPre) = 7
          /\ wfRaw # <<>> => Len(wfSent) = 9)
    /\ [][wfRaw # <<>>
            => \/ wfRaw' = wfRaw /\ wfSent' = wfSent
               \/ wfRaw' = <<>> /\ Len(wfSent') = 1]_vars

\* C16 witness: a capture wrote all nine byte strings and made its raw read.
C16_Witness ==
    /\ wfPc = "done"
    /\ Len(wfSent) = 9
    /\ wfLast = "chunk"
    /\ wfRaw # <<>>

\* the number of comma-separated fields of a response
fieldCount(text) == 1 + Cardinality({i \in 1..Len(text) : text[i] = ","})

\* a measure call has just ended, having received a response
measured == opDone /\ lastOp'.op = "measure" /\ lcrHeard' # <<>>

\* C17: measure writes exactly one query, and when the response has fewer or
\* more than three comma-separated fields it returns no result and fails
\* with an error other than the one that rejects an invalid parameter
\* (ValueError in this driver).
C17_WrongFieldCountIsProtocolError ==
    [][(measured /\ fieldCount(lcrHeard'[1]) # 3)
        => /\ sent' = Append(sent, <<":FETC?", NL>>)
           /\ lcrResult'.kind \notin {"return", ValueError}]_vars

\* the response of three fields that renders a reading
tripleOf(reading) ==
    formatMilli(reading[1]) \o <<",">> \o formatMilli(reading[2]) \o <<",">>
        \o formatNat(reading[3])

\* C18: from a response of three well-formed fields measure returns
\* (primary, secondary, status), the values of the first, second and third
\* field in that order, whatever the status code.
C18_TripleParsedInOrder ==
    (lastOp.op = "measure" /\ lcrHeard = <<tripleOf(lcrDev.reading)>>)
        => lcrResult = [kind |-> "return", value |-> lcrDev.reading]

\* C18 witness: measure returned a reading with a non-zero status.
C18_Witness ==
    /\ lastOp.op = "measure"
    /\ lcrHeard = <<tripleOf(lcrDev.reading)>>
    /\ lcrResult.kind = "return"
    /\ lcrResult.value[3] # 0
    /\ lcrResult.value[1] # lcrResult.value[2]

\* a get_config call has just ended
configured == opDone /\ lastOp'.op = "get_config"

\* C19 (as amended): get_config writes the mode query and, when that was
\* answered, the frequency query after it, and nothing else; it returns
\* exactly when both were answered, and then returns the mode and the
\* frequency the instrument held at the time of the call.
C19_GetConfigIsLive ==
    [][configured
        => /\ sent' = IF lcrHeard' = <<>>
                      THEN Append(sent, <<":FUNC:IMP?", NL>>)
                      ELSE sent \o << <<":FUNC:IMP?", NL>>, <<":FREQ?", NL>> >>
           /\ lcrResult'.kind = "return" <=> Len(lcrHeard') = 2
           /\ lcrResult'.kind = "return"
                => lcrResult'.value = [mode |-> lcrDev.mode,
                                       frequency |-> lcrDev.freq * 1000]]_vars

\* C19 witness: get_config returned a frequency other than the one the last
\* set_frequency command asked for.
C19_Witness ==
    /\ lastOp.op = "get_config"
    /\ lcrResult.kind = "return"
    /\ \E i \in 1..Len(sent) :
        /\ headerOf(sent[i]) = ":FREQ "
        /\ parseNat(argumentOf(sent[i])) * 1000 # lcrResult.value.frequency

\* C19 as stated: every get_config call issues exactly two queries and
\* returns the values the instrument reports.
C19_Original ==
    [][configured
        => /\ sent' = sent \o << <<":FUNC:IMP?", NL>>, <<":FREQ?", NL>> >>
           /\ lcrResult'.kind = "return"
           /\ lcrResult'.value = [mode |-> lcrDev.mode,
                                  frequency |-> lcrDev.freq * 1000]]_vars

\* C20: set_channel_enable and set_vertical, given a channel outside 1..4,
\* fail with the invalid-parameter error and write nothing.
C20_BadChannelRejected ==
    [][(scopeCount' = scopeCount + 1 /\ scopeOp'.channel \notin 1..4)
        => (scopeOp'.result = ValueError /\ scopeSent' = scopeSent)]_vars

\* the number the oscilloscope sent in answer to the last value query
heardValue == [m |-> msHeard.m, e |-> msHeard.e]

\* C21: when the value response is a number, measure returns None if its
\* magnitude is above 10^30, positive or negative, and returns the number
\* itself, unchanged, if its magnitude is at most 10^30.
C21_SentinelIsAbsent ==
    msHeard.kind = "number"
        => /\ msResult.kind = "return"
           /\ heardValue \in AboveInputs => msResult.value = None
           /\ heardValue \in WithinInputs
                => msResult.value = [none |-> FALSE, m |-> msHeard.m, e |-> msHeard.e]

\* C21 witness: the response -9.9E+37 was answered with None.
C21_Witness ==
    /\ msHeard.kind = "number"
    /\ msHeard.text = <<"-", "9", ".", "9", "E", "+", "3", "7">>
    /\ msResult = [kind |-> "return", value |-> None]

\* C22: a value response that is no number makes measure fail: it does not
\* return, neither None nor a number.
C22_UnparsableIsFailure ==
    msHeard.kind = "garbage" => msResult.kind \notin {"return", "none"}

\* C23: get_all_measurements ends by returning a mapping with an entry for
\* each of the six names, having attempted all six measurements, also when
\* one of them failed.
C23_OneFailureDoesNotAbort ==
    ga.pc = "done"
        => /\ ga.result = "return"
           /\ Len(ga.map) = 6
           /\ Len(msSent) = 18

ExpectedTypes ==
    << <<"F","R","E","Q">>, <<"P","E","R","I","O","D">>, <<"M","E","A","N">>,
       <<"P","K","2","P","K">>, <<"R","M","S">>,
       <<"A","M","P","L","I","T","U","D","E">> >>

ExpectedKeys ==
    << <<"f","r","e","q">>, <<"p","e","r","i","o","d">>, <<"m","e","a","n">>,
       <<"p","k","2","p","k">>, <<"r","m","s">>,
       <<"a","m","p","l","i","t","u","d","e">> >>

\* the writes of the i-th measurement of a successful get_all_measurements
expectedWrite(i, channel) ==
    LET j == (i - 1) \div 3 + 1
    IN  CASE i % 3 = 1 -> <<"MEASUREMENT:IMMED:TYPE ">> \o ExpectedTypes[j] \o <<NL>>
          [] i % 3 = 2 -> <<"MEASUREMENT:IMMED:SOURCE CH">> \o formatNat(channel) \o <<NL>>
          [] OTHER     -> <<"MEASUREMENT:IMMED:VALUE?", NL>>

\* C24: a get_all_measurements(channel) that returns has made exactly six
\* measurements on that channel, in the order frequency, period, mean,
\* peak-to-peak, RMS, amplitude, and returns a mapping with exactly those
\* six keys in that order.
C24_SixMeasurementsInOrder ==
    (ga.pc = "done" /\ ga.result = "return")
        => /\ msSent = [i \in 1..18 |-> expectedWrite(i, ga.channel)]
           /\ [i \in 1..Len(ga.map) |-> ga.map[i].key] = ExpectedKeys

\* C24 witness: get_all_measurements returned a number for the frequency and
\* None for the amplitude.
C24_Witness ==
    /\ ga.pc = "done"
    /\ ga.result = "return"
    /\ ga.map[1].value # None
    /\ ga.map[6].value = None

\* C25: the writes of every measure call, whether it returned or its query
\* timed out, are the measurement type command, the source channel command
\* and then the value query, in that order and nothing else.
C25_TypeSourceThenQuery ==
    /\ Len(msSent) % 3 = 0
    /\ (ga.pc = "idle" /\ msResult.kind # "none") => Len(msSent) = 3
    /\ \A j \in 0..((Len(msSent) \div 3) - 1) :
        /\ headerOf(msSent[3 * j + 1]) = "MEASUREMENT:IMMED:TYPE "
        /\ argumentOf(msSent[3 * j + 1]) \in
                MeasTypeInputs \cup {ExpectedTypes[i] : i \in 1..6}
        /\ headerOf(msSent[3 * j + 2]) = "MEASUREMENT:IMMED:SOURCE CH"
        /\ argumentOf(msSent[3 * j + 2]) \in {formatNat(c) : c \in MeasChannelInputs}
        /\ msSent[3 * j + 3] = <<"MEASUREMENT:IMMED:VALUE?", NL>>

\* C25 witness: a measure call whose value query timed out had written its
\* three byte strings.
C25_Witness ==
    /\ ga.pc = "idle"
    /\ msResult.kind = TimeoutError
    /\ Len(msSent) = 3

\* C26: every ask writes its command exactly once and before its read: from
\* the write on, through the settle delay, every retry of the read on
\* would-block and a read that ends in TimeoutError, the bytes written are
\* the one command and nothing is written again; the one read starts only
\* after the settle delay, and only once.
C26_WriteOnceThenRead ==
    /\ [](rdPc # "idle" => sent = <<lastAsk.bytes>>)
    /\ [][rdPc # "idle" => sent' = sent]_vars
    /\ [](rdPc \notin {"idle", "settle"} => (rdKind = "read" /\ startTime >= SettleDelay))
    /\ [][(startTime' # startTime \/ rdKind' # rdKind) => rdPc = "settle"]_vars
    /\ [][rdPc # "idle" => rdPc' # "settle"]_vars

\* C26: an ask whose read retried on would-block and then timed out
C26_Witness ==
    /\ rdPc = "done"
    /\ result.kind = TimeoutError
    /\ chanLast = "EAGAIN"
    /\ Len(sent) = 1
    /\ lastAsk.op = "ask"

\* the text up to and including its first terminator (all of it if it has none)
RECURSIVE uptoTerminator(_)
uptoTerminator(text) ==
    IF text = <<>> THEN <<>>
    ELSE IF Head(text) = NL THEN <<NL>>
    ELSE <<Head(text)>> \o uptoTerminator(Tail(text))

\* C27: the text read returns is what the channel delivered up to and
\* including the first terminator, trimmed of surrounding whitespace; it holds
\* no terminator and nothing that followed the first terminator.
C27_ReturnsFirstLineOnly ==
    (rdKind = "read" /\ rdPc = "done" /\ result.kind = "return")
        => (/\ ~contains(result.value, NL)
            /\ result.value = strip(uptoTerminator(data)))

\* the number of terminators a text ends with
RECURSIVE trailingNL(_)
trailingNL(text) ==
    IF endswithNL(text) THEN 1 + trailingNL(SubSeq(text, 1, Len(text) - 1)) ELSE 0

\* C28 (amended): every write call makes exactly one channel write, of a
\* byte sequence that ends with a newline: the command with one newline
\* appended when it does not end with one, the command itself when it does
\* (so a command ending with several newlines keeps them all); writing what
\* was written changes nothing.
C28_WriteNormalises ==
    [][opCount' = opCount + 1 =>
        LET command == lastOp'.arg
            out     == Last(sent')
        IN  /\ lastOp'.op = "write"
            /\ sent' = Append(sent, out)
            /\ endswithNL(out)
            /\ (~endswithNL(command) => out = Append(command, NL))
            /\ (endswithNL(command) => out = command)
            /\ trailingNL(out) = (IF trailingNL(command) = 0 THEN 1 ELSE trailingNL(command))
            /\ write(out) = out]_vars

\* C28: a command without a terminator and a command with one have both
\* been written
C28_Witness ==
    /\ Len(sent) = 2
    /\ sent[1] = <<"*IDN?", NL>>
    /\ lastOp.op = "write"
    /\ lastOp.arg = <<"*IDN?", NL>>
    /\ sent[2] = lastOp.arg

\* C28 as stated: every byte sequence written ends with exactly one newline
C28_Original ==
    \A i \in 1..Len(sent) : trailingNL(sent[i]) = 1

\* C29 (amended): read_raw returns the first non-empty chunk os.read
\* delivers, that chunk alone, and reads no more after it; a call that ends
\* without a non-empty chunk and without a channel error other than
\* would-block ends at the deadline with TimeoutError; no call returns an
\* empty result.
C29_FirstChunkOrTimeout ==
    /\ [][(rdKind = "read_raw" /\ rdPc = "os_read" /\ chanLast' = "chunk")
            => (/\ rdPc' = "done"
                /\ result'.kind = "return"
                /\ result'.value \in ChunkInputs \ {<<>>}
                /\ data' = <<>>)]_vars
    /\ []((rdKind = "read_raw" /\ chanLast = "chunk") => rdPc = "done")
    /\ [][rdPc = "done" => (rdPc' = "done" /\ chanLast' = chanLast /\ result' = result)]_vars
    /\ []((rdKind = "read_raw" /\ rdPc = "done" /\ chanLast \notin {"chunk", "EIO"})
            => (result.kind = TimeoutError /\ now >= end_time))
    /\ []((rdKind = "read_raw" /\ rdPc = "done" /\ result.kind = "return")
            => (result.value # <<>> /\ chanLast = "chunk"))

\* C29: read_raw returned a chunk after earlier reads of the same call
\* delivered nothing
C29_Witness ==
    /\ rdKind = "read_raw"
    /\ rdPc = "done"
    /\ result.kind = "return"
    /\ now > startTime + MaxReadTicks

\* C29 as stated: a read_raw that ends without a non-empty chunk having been
\* delivered fails with TimeoutError
C29_Original ==
    (rdKind = "read_raw" /\ rdPc = "done" /\ chanLast # "chunk")
        => result.kind = TimeoutError

\* C30: an operation on an object whose close() has released its channel
\* fails with OSError and reaches no device.
C30_ClosedConnectionFails ==
    [][(useLast' # useLast /\ inst[useLast'.obj].releasedBy = useLast'.obj)
        => (useLast'.result = OSError /\ useLast'.dev = "none")]_vars

\* the LCR meter's side: the configuration after it has read one command
deviceApply(cfg, bytes) ==
    CASE headerOf(bytes) = ":FUNC:IMP " -> [cfg EXCEPT !.mode = argumentOf(bytes)]
      [] headerOf(bytes) = ":FREQ " -> [cfg EXCEPT !.freq = argumentOf(bytes)]
      [] headerOf(bytes) = ":LEV:VOLT " -> [cfg EXCEPT !.volt = argumentOf(bytes)]
      [] OTHER -> cfg

\* the LCR meter's side: the configuration after the commands of log, in order
RECURSIVE deviceAfter(_, _)
deviceAfter(cfg, log) ==
    IF log = <<>> THEN cfg ELSE deviceAfter(deviceApply(cfg, Head(log)), Tail(log))

PowerOn == [mode |-> <<>>, freq |-> <<>>, volt |-> <<>>]

C32_AcquisitionCommands ==
    [][scopeCount' = scopeCount + 1 =>
        LET new == SubSeq(scopeSent', Len(scopeSent) + 1, Len(scopeSent'))
        IN  /\ scopeSent' = scopeSent \o new
            /\ scopeOp'.op = "run" =>
                    (/\ acqState(acqDev') = "RUN"
                     /\ new = << <<"ACQUIRE:STOPAFTER ", "RUNSTOP", NL>>,
                                 <<"ACQUIRE:STATE ", "RUN", NL>> >>)
            /\ scopeOp'.op = "single" =>
                    (/\ acqState(acqDev') = "SINGLE_ARMED"
                     /\ new = << <<"ACQUIRE:STOPAFTER ", "SEQUENCE", NL>>,
                                 <<"ACQUIRE:STATE ", "RUN", NL>> >>)
            /\ scopeOp'.op = "stop" =>
                    (/\ acqState(acqDev') = "STOPPED"
                     /\ new = << <<"ACQUIRE:STATE ", "STOP", NL>> >>)]_vars

\* C32: run() has been issued on an oscilloscope that had stopped by itself
\* after a single sequence
C32_Witness ==
    /\ scopeOp.op = "run"
    /\ acqState(acqDev) = "RUN"
    /\ scopeCount = 2
    /\ scopeSent[1] = <<"ACQUIRE:STOPAFTER ", "SEQUENCE", NL>>

\* C33: no channel stays open that no Connection owns: every open descriptor
\* names a channel whose driver object was constructed to the end, so a
\* constructor whose identification query failed has released its channel.
C33_FailedOpenReleasesChannel ==
    \A fd \in DOMAIN fdTable : fdTable[fd] # 0 => inst[fdTable[fd]].conn

\* logging thread i is inside a sample of its loop with a log file open
sampling(i) ==
    /\ loggers[i].pc = "sample"
    /\ loggers[i].lcr_file \/ loggers[i].scope_file

\* C34: at no time are two logging threads inside a sample of their loops,
\* each with a log file open.
C34_OneLoggingLoop ==
    \A i, j \in 1..Len(loggers) : (sampling(i) /\ sampling(j)) => i = j

\* C35: once stop_logging has followed the start_logging that started
\* logging thread i, thread i eventually has left its loop and closed its
\* files.
C35_StopEndsTheLoop ==
    \A i \in 1..MaxLoggers :
        (Len(loggers) = i /\ ~recording) ~>
            (/\ Len(loggers) >= i
             /\ loggers[i].pc = "ended"
             /\ ~loggers[i].lcr_file
             /\ ~loggers[i].scope_file)

\* C36: after a scope_get_measurements(channel) whose get_all_measurements
\* returned, each of the six labels of the channel shows what this call
\* measured for it: the value, or "No signal" for an absent one.
C36_EveryLabelUpdated ==
    (ga.pc = "shown" /\ ga.result = "return")
        => \A i \in 1..Len(LabelNames) :
              LET l == scopeLabels[ga.channel][i]
              IN  /\ l.shown = (IF ga.map[i].value = None THEN "No signal" ELSE "value")
                  /\ l.value = ga.map[i].value

====
